---- MODULE Spec2Model ----
(***************************************************************************)
(* A model of the lock command and auto-reset engine of the UniFi Access   *)
(* hub device class (src/src/access-hub.ts): one AccessHub instance, its   *)
(* fields, the timers it has pending in the runtime, and the transport     *)
(* calls it is awaiting.                                                   *)
(*                                                                         *)
(* JavaScript values are records tagged with their type (field t), so that *)
(* undefined, numbers, booleans and strings can be told apart; strings     *)
(* whose letters the code inspects are sequences of one-character strings. *)
(***************************************************************************)
EXTENDS Integers, Sequences, FiniteSets, Bags, TLC

\* ------------------------------------------------------------ constants

DEFAULT_LOCK_RESET_DELAY == 5000
G3_READER_LOCK_RESET_DELAY == 2000
LOCK_RESET_MAX_ATTEMPTS == 6
LOCK_RESET_RETRY_DELAY == 5000

\* Bounds of the model: transport calls awaited at once, timers pending at once.
MaxInFlight == 2
MaxTimers == 2

\* ------------------------------------------------------------ JS values

Undefined == [t |-> "undefined"]
Infinity == [t |-> "infinity"]
Num(n) == [t |-> "number", v |-> n]
Bool(b) == [t |-> "boolean", v |-> b]
Str(s) == [t |-> "string", v |-> s]

\* An absent timer handle, override or identifier (null / undefined).
NULL == "null"

\* HAP's Characteristic.LockCurrentState values the hub uses.
SECURED == "SECURED"
UNSECURED == "UNSECURED"
UNKNOWN == "UNKNOWN"

\* ------------------------------------------------------------ strings

LowerLetters == <<"a","b","c","d","e","f","g","h","i","j","k","l","m",
                 "n","o","p","q","r","s","t","u","v","w","x","y","z">>
UpperLetters == <<"A","B","C","D","E","F","G","H","I","J","K","L","M",
                 "N","O","P","Q","R","S","T","U","V","W","X","Y","Z">>
Digits == {"0","1","2","3","4","5","6","7","8","9"}

UpperChar(c) ==
  IF \E i \in 1..26 : LowerLetters[i] = c
  THEN UpperLetters[CHOOSE i \in 1..26 : LowerLetters[i] = c]
  ELSE c

LowerChar(c) ==
  IF \E i \in 1..26 : UpperLetters[i] = c
  THEN LowerLetters[CHOOSE i \in 1..26 : UpperLetters[i] = c]
  ELSE c

ToUpperCase(s) == [i \in 1..Len(s) |-> UpperChar(s[i])]
\* A lower-casing that leaves its argument as it is.
ToLowerCase_Identity(s) == s

ToLowerCase(s) == [i \in 1..Len(s) |-> LowerChar(s[i])]

\* A normalisation that keeps every character.
StripNonAlnum_Keep(s) == s

\* s.replace(/[^A-Z0-9]/g, ""): keep only upper-case letters and digits.
StripNonAlnum(s) ==
  SelectSeq(s, LAMBDA c : (\E i \in 1..26 : UpperLetters[i] = c) \/ c \in Digits)

StartsWith(s, prefix) ==
  /\ Len(prefix) <= Len(s)
  /\ SubSeq(s, 1, Len(prefix)) = prefix

\* ------------------------------------------------------------ device class

G3_READER_CLASS_PREFIXES ==
  { <<"U","A","G","3","R","E","A","D","E","R">>, <<"U","A","G","3","B">> }

isG3ReaderDeviceClass(normalizedDeviceClass) ==
  \E prefix \in G3_READER_CLASS_PREFIXES : StartsWith(normalizedDeviceClass, prefix)

\* access-types.ts carries a second definition of isG3ReaderDeviceClass, which
\* also accepts the class UAG3 as a whole. The devices of Spec are classified
\* alike by both definitions.
G3_READER_CLASS_EXACT_MATCHES == { <<"U","A","G","3">> }

isG3ReaderDeviceClassWithExactMatches(normalizedDeviceClass) ==
  \/ normalizedDeviceClass \in G3_READER_CLASS_EXACT_MATCHES
  \/ \E prefix \in G3_READER_CLASS_PREFIXES : StartsWith(normalizedDeviceClass, prefix)

\* (device.device_type ?? "").toUpperCase().replace(/[^A-Z0-9]/g, "")
NormalizeDeviceClass(device_type) ==
  StripNonAlnum(ToUpperCase(IF device_type.t = "string" THEN device_type.v ELSE <<>>))

\* Device type strings of the snapshots the model draws from.
TYPE_UAH == Str(<<"U","A","H">>)
TYPE_MINI == Str(<<"U","A","-","H","u","b","-","D","o","o","r","-","M","i","n","i">>)
TYPE_ULTRA == Str(<<"U","A","-","U","L","T","R","A">>)
TYPE_G3_READER == Str(<<"U","A"," ","G","3"," ","B">>)

\* get isMiniVariant(), on the snapshot's device type
IsMiniVariant(device_type) ==
  LET deviceType == IF device_type.t = "string" THEN device_type.v ELSE <<>>
  IN deviceType = TYPE_MINI.v \/ deviceType = TYPE_ULTRA.v

\* ------------------------------------------------------------ snapshots

\* An AccessDeviceConfig as far as the hub reads it. location_id and
\* door_unique_id are strings, NULL when missing; configs is the list of
\* key/value entries, extensions the list of device extensions.
Device(device_type, capabilities, location_id, door_unique_id, configs) ==
  [ t |-> "device", device_type |-> device_type, unique_id |-> "dev-1",
    capabilities |-> capabilities, location_id |-> location_id,
    door_unique_id |-> door_unique_id, configs |-> configs, extensions |-> <<>> ]

Null == [t |-> "null"]
Timeout(id) == [t |-> "timeout", id |-> id]

\* JavaScript truthiness of an optional string.
Truthy(x) == x # NULL /\ x # ""

\* configs?.find(x => x.key === key)?.value
FindConfigValue(configs, key) ==
  IF \E i \in 1..Len(configs) : configs[i].key = key
  THEN configs[CHOOSE i \in 1..Len(configs) :
                 /\ configs[i].key = key
                 /\ \A j \in 1..(i - 1) : configs[j].key # key].value
  ELSE Undefined

LockRelayKey(device_type) ==
  IF device_type \in {TYPE_MINI, TYPE_ULTRA}
  THEN "output_d1_lock_relay"
  ELSE "input_state_rly-lock_dry"

ActiveWords ==
  { <<"o","n">>, <<"t","r","u","e">>, <<"u","n","l","o","c","k","e","d">>,
    <<"o","p","e","n">>, <<"a","c","t","i","v","e">> }
InactiveWords ==
  { <<"o","f","f">>, <<"f","a","l","s","e">>, <<"l","o","c","k","e","d">>,
    <<"c","l","o","s","e","d">>, <<"i","n","a","c","t","i","v","e">>,
    <<"s","e","c","u","r","e","d">> }

\* get hubLockState(): the override of a G3 reader if there is one, else the
\* state derived from the relay entry of the snapshot.
HubLockState(u, override, isG3) ==
  IF isG3 /\ override # NULL THEN override
  ELSE
    LET lockRelayValue == FindConfigValue(u.configs, LockRelayKey(u.device_type))
        normalizedRelayValue ==
          IF lockRelayValue.t = "string"
          THEN Str(ToLowerCase(lockRelayValue.v)) ELSE lockRelayValue
        isRelayActive ==
          CASE normalizedRelayValue.t = "boolean" -> normalizedRelayValue.v
            [] normalizedRelayValue.t = "number" -> normalizedRelayValue.v = 1
            [] normalizedRelayValue.t = "string" -> normalizedRelayValue.v \in ActiveWords
            [] OTHER -> FALSE
        isRelayInactive ==
          CASE normalizedRelayValue.t = "boolean" -> ~normalizedRelayValue.v
            [] normalizedRelayValue.t = "number" -> normalizedRelayValue.v = 0
            [] normalizedRelayValue.t = "string" -> normalizedRelayValue.v \in InactiveWords
            [] OTHER -> FALSE
    IN IF lockRelayValue.t \in {"undefined", "null"}
       THEN (IF isG3 THEN SECURED ELSE UNKNOWN)
       ELSE IF isRelayInactive THEN SECURED
       ELSE IF isRelayActive THEN UNSECURED
       ELSE IF isG3 THEN SECURED
       ELSE UNKNOWN

\* An addressing that tags a reader as hub without looking for its location.
GetCommandDeviceConfig_NoLocationCheck(u, isG3) ==
  IF "is_hub" \in u.capabilities THEN u
  ELSE IF ~isG3 THEN Null
  ELSE [u EXCEPT !.capabilities = @ \cup {"is_hub"}]

\* getCommandDeviceConfig(): the snapshot to address a command to, or Null.
GetCommandDeviceConfig(u, isG3) ==
  IF "is_hub" \in u.capabilities THEN u
  ELSE IF ~isG3 THEN Null
  ELSE
    LET locationId == IF u.location_id # NULL THEN u.location_id ELSE u.door_unique_id
    IN IF ~Truthy(locationId) /\ ~Truthy(u.location_id) THEN Null
       ELSE [u EXCEPT !.capabilities = @ \cup {"is_hub"},
                      !.location_id = IF Truthy(locationId) /\ locationId # u.location_id
                                      THEN locationId ELSE @]

\* The constructor's lockDelayInterval: a G3 reader and a negative setting
\* fall back to the default behaviour (undefined).
ConstructLockDelayInterval(configuredLockDelay, isG3) ==
  LET chosen == IF isG3 THEN Undefined ELSE configuredLockDelay
  IN IF chosen.t # "undefined" /\ chosen.v < 0 THEN Undefined ELSE chosen

\* An unlock duration that passes an interval of 0 on as 0 minutes.
UnlockDuration_ZeroMinutes(isLocking, interval) ==
  IF isLocking THEN Num(0)
  ELSE IF interval.t = "undefined" THEN Undefined
  ELSE interval

\* hubLockCommand's unlockDuration argument.
UnlockDuration(isLocking, interval) ==
  IF isLocking THEN Num(0)
  ELSE IF interval.t = "undefined" THEN Undefined
  ELSE IF interval.v = 0 THEN Infinity
  ELSE interval

\* ------------------------------------------------------------ state

VARIABLES
  uda,                        \* this.uda: the current device snapshot
  deviceClass,                \* this.deviceClass
  configuredLockDelay,        \* the LockDelayInterval feature option
  lockDelayInterval,          \* this.lockDelayInterval
  isOnline,                   \* this.isOnline (kept by the parent class)
  hkLockState,                \* this._hkLockState
  g3ReaderLockStateOverride,  \* this.g3ReaderLockStateOverride
  lockResetTimer,             \* this.lockResetTimer: Null or a timer handle
  timers,                     \* the timeouts pending in the runtime
  inflight,                   \* transport calls awaited, with their continuation
  last,                       \* what the latest step did that can be observed
  probe,                      \* the latest evaluation of a getter or helper on its own
  sensors,                    \* the contact sensors: hints, tracked states, publishes
  doorbell,                   \* this.doorbellRingRequestId and what the latest step emitted
  methods,                    \* the access-method switches: states, configs, services
  intercom,                   \* the AccessIntercom built for the same device: its class and ring
  listening                   \* whether the instance's event listeners are registered

vars == << uda, deviceClass, configuredLockDelay, lockDelayInterval, isOnline,
           hkLockState, g3ReaderLockStateOverride, lockResetTimer, timers,
           inflight, last, probe, sensors, doorbell, methods, listening, intercom >>

isG3Reader == isG3ReaderDeviceClass(deviceClass)

\* What a step reports: the operation, its return value ("true", "false",
\* "rejected" for a thrown error, "pending" while it awaits, "none"), the
\* failure it logged, the transport call it issued ("unlock", "lock" or "none"),
\* what it published on the lock channel, the tracked lock state it started
\* from, whether it cancelled a pending timer (clearTimeout) and the attempt
\* numbers of the timers it installed (setTimeout).
Report(op, ret, err, call, pub, st) ==
  [op |-> op, ret |-> ret, err |-> err, call |-> call, pub |-> pub,
   was |-> hkLockState, cleared |-> st.cleared, scheduled |-> st.scheduled]

NoPub == <<>>

\* ------------------------------------------------------------ inputs

RelayOn == Str(<<"o","n">>)
RelayOff == Str(<<"o","f","f">>)
RelayOther == Str(<<"b","u","s","y">>)

\* The relay values a snapshot of the model may carry (Undefined: no entry).
RelayValues == { Undefined, RelayOn, RelayOff }

ConfigsWith(device_type, relayValue) ==
  IF relayValue.t = "undefined" THEN <<>>
  ELSE << [key |-> LockRelayKey(device_type), value |-> relayValue] >>

\* The devices the model is run for: hubs with the hub capability, a hub
\* snapshot without it, and G3 readers with each way of resolving a location.
HubShape == << TYPE_UAH, {"is_hub"}, NULL, NULL >>
DeviceShapes ==
  { HubShape,
    << TYPE_UAH, {}, NULL, NULL >>,
    << TYPE_G3_READER, {}, "loc-1", "door-1" >>,
    << TYPE_G3_READER, {}, NULL, "door-1" >>,
    << TYPE_G3_READER, {}, NULL, NULL >>,
    << TYPE_G3_READER, {"is_hub"}, NULL, NULL >> }

\* The LockDelayInterval settings: none, invalid, indefinite, two minutes.
ConfiguredDelays == { Undefined, Num(-1), Num(0), Num(2) }

\* The instances the model constructs: the hub with every setting, a reader
\* with a setting it ignores, every other device with the default.
Instances ==
  { << shape, Undefined >> : shape \in DeviceShapes }
    \cup { << HubShape, d >> : d \in ConfiguredDelays }
    \cup { << << TYPE_G3_READER, {}, "loc-1", "door-1" >>, Num(2) >> }

\* ------------------------------------------------------------ timers

\* The device a timer or a transport call holds on to, as far as anything
\* reads it later: the snapshot without its configs.
CommandTarget(device) == [device EXCEPT !.configs = <<>>, !.extensions = <<>>]

\* A scheduler that drops the handle without cancelling the timer.
ClearLockResetTimer_HandleOnly(st) ==
  IF st.handle.t # "null" THEN [st EXCEPT !.handle = Null] ELSE st

\* clearTimeout(this.lockResetTimer); this.lockResetTimer = null
ClearLockResetTimer(st) ==
  IF st.handle.t # "null"
  THEN [st EXCEPT !.timers = {x \in st.timers : x.id # st.handle.id},
                  !.handle = Null,
                  !.cleared = @ \/ (\E x \in st.timers : x.id = st.handle.id)]
  ELSE st

FreshTimerId(ts) ==
  CHOOSE i \in 1..(Cardinality(ts) + 1) : \A x \in ts : x.id # i

\* A delay that takes every device for a reader.
EffectiveDelay_ReaderAlways(delay, isG3) ==
  IF delay.t # "undefined" THEN delay.v ELSE G3_READER_LOCK_RESET_DELAY

\* delay ?? (this.isG3Reader ? G3_READER_LOCK_RESET_DELAY : DEFAULT_LOCK_RESET_DELAY)
EffectiveDelay(delay, isG3) ==
  IF delay.t # "undefined" THEN delay.v
  ELSE IF isG3 THEN G3_READER_LOCK_RESET_DELAY ELSE DEFAULT_LOCK_RESET_DELAY

\* scheduleDefaultLockReset(device, attempt = 0, delay?)
ScheduleDefaultLockReset(st, device, attempt, delay, isG3) ==
  LET cleared == ClearLockResetTimer(st)
      effectiveDelay == EffectiveDelay(delay, isG3)
      id == FreshTimerId(cleared.timers)
  IN [cleared EXCEPT
        !.timers = @ \cup {[id |-> id, device |-> CommandTarget(device),
                            attempt |-> attempt, delay |-> effectiveDelay]},
        !.handle = Timeout(id),
        !.scheduled = @ \cup {attempt}]

\* The timers as a step finds them: nothing cancelled or installed yet.
TimerState ==
  [timers |-> timers, handle |-> lockResetTimer, cleared |-> FALSE, scheduled |-> {}]

\* The model keeps at most MaxTimers timeouts pending.
TimerRoom == Cardinality(timers) < MaxTimers

\* Nothing evaluated on its own yet.
NoProbe == [fn |-> "none"]

\* ------------------------------------------------------------ access methods

\* Object.keys(ACCESS_METHOD_METADATA), in declaration order.
ACCESS_METHOD_TYPES ==
  << <<"f","a","c","e">>, <<"h","a","n","d">>, <<"m","o","b","i","l","e">>,
     <<"n","f","c">>, <<"p","i","n">>, <<"q","r">> >>

\* ACCESS_METHOD_METADATA[methodType].keywords
AccessMethodKeywords(methodType) ==
  IF methodType = <<"h","a","n","d">>
  THEN << <<"h","a","n","d">>, <<"w","a","v","e">> >>
  ELSE << methodType >>

\* The result of getAccessMethodTypeFromExtension for no method: null.
NoMethod == <<>>

\* String.prototype.includes
Includes(s, keyword) ==
  \E i \in 1..(Len(s) - Len(keyword) + 1) : SubSeq(s, i, i + Len(keyword) - 1) = keyword

\* An AccessDeviceExtension as far as discovery reads it.
Extension(extension_name, target_name, unique_id, target_config) ==
  [ extension_name |-> extension_name, target_name |-> target_name,
    target_type |-> Undefined, target_value |-> Undefined, source_id |-> Undefined,
    unique_id |-> unique_id, device_id |-> Undefined, target_config |-> target_config ]

\* getAccessMethodTypeFromExtension(extension)
GetAccessMethodTypeFromExtension(extension) ==
  LET fields == << extension.extension_name, extension.target_name, extension.target_type,
                   extension.target_value, extension.source_id >>
      values == [i \in 1..5 |-> IF fields[i].t = "string" THEN ToLowerCase(fields[i].v)
                                  ELSE <<>>]
      Matches(methodType) ==
        \E k \in 1..Len(AccessMethodKeywords(methodType)), i \in 1..5 :
          Includes(values[i], AccessMethodKeywords(methodType)[k])
  IN IF \E n \in 1..Len(ACCESS_METHOD_TYPES) : Matches(ACCESS_METHOD_TYPES[n])
     THEN ACCESS_METHOD_TYPES[CHOOSE n \in 1..Len(ACCESS_METHOD_TYPES) :
                                /\ Matches(ACCESS_METHOD_TYPES[n])
                                /\ \A m \in 1..(n - 1) : ~Matches(ACCESS_METHOD_TYPES[m])]
     ELSE NoMethod

\* a ?? b over the optional strings of an extension.
Nullish(x) == x.t \in {"undefined", "null"}

\* buildAccessMethodExtensionKey(extension, fallback)
BuildAccessMethodExtensionKey(extension, fallback) ==
  IF ~Nullish(extension.unique_id) THEN extension.unique_id
  ELSE IF ~Nullish(extension.device_id) THEN extension.device_id
  ELSE IF ~Nullish(extension.target_name) THEN extension.target_name
  ELSE IF ~Nullish(extension.extension_name) THEN extension.extension_name
  ELSE IF ~Nullish(extension.source_id) THEN extension.source_id
  ELSE Str(fallback)

\* A search that answers the last boolean-valued entry.
FindBooleanConfig_Last(target_config) ==
  IF \E i \in 1..Len(target_config) : target_config[i].config_value.t = "boolean"
  THEN target_config[CHOOSE i \in 1..Len(target_config) :
                       /\ target_config[i].config_value.t = "boolean"
                       /\ \A j \in (i + 1)..Len(target_config) :
                            target_config[j].config_value.t # "boolean"]
  ELSE Undefined

\* extension.target_config?.find(config => typeof config.config_value === "boolean"),
\* Undefined when there is none.
FindBooleanConfig(target_config) ==
  IF \E i \in 1..Len(target_config) : target_config[i].config_value.t = "boolean"
  THEN target_config[CHOOSE i \in 1..Len(target_config) :
                       /\ target_config[i].config_value.t = "boolean"
                       /\ \A j \in 1..(i - 1) : target_config[j].config_value.t # "boolean"]
  ELSE Undefined

\* A discovery that keeps every extension of a method type.
SkipsExtension_NoDedup(methodType, seen) == methodType = NoMethod

\* if(!methodType || seen.has(methodType)) continue
SkipsExtension(methodType, seen) == methodType = NoMethod \/ methodType \in seen

\* A discovery that marks a method type as seen before it knows whether the
\* extension has a boolean config entry.
SeenAfter_Always(seen, methodType, hasBooleanConfig) == seen \cup {methodType}

\* seen.add(methodType), reached only past the boolean config test
SeenAfter(seen, methodType, hasBooleanConfig) ==
  IF hasBooleanConfig THEN seen \cup {methodType} ELSE seen

\* The loop of discoverAccessMethodDefinitions from extension i on.
RECURSIVE DiscoverFrom(_, _, _, _)
DiscoverFrom(extensions, i, seen, definitions) ==
  IF i > Len(extensions) THEN definitions
  ELSE
    LET extension == extensions[i]
        methodType == GetAccessMethodTypeFromExtension(extension)
        configEntry == FindBooleanConfig(extension.target_config)
        hasBooleanConfig == configEntry # Undefined
    IN IF SkipsExtension(methodType, seen)
       THEN DiscoverFrom(extensions, i + 1, seen, definitions)
       ELSE DiscoverFrom(extensions, i + 1, SeenAfter(seen, methodType, hasBooleanConfig),
              IF hasBooleanConfig
              THEN Append(definitions,
                          [ configKey |-> configEntry.config_key,
                            extensionKey |-> BuildAccessMethodExtensionKey(extension,
                                                                          methodType),
                            methodType |-> methodType,
                            state |-> configEntry.config_value.v ])
              ELSE definitions)

\* discoverAccessMethodDefinitions() on the snapshot's extensions.
DiscoverAccessMethodDefinitions(extensions) == DiscoverFrom(extensions, 1, {}, <<>>)

\* ------------------------------------------------------------ contact sensors

CONTACT_DETECTED == "CONTACT_DETECTED"
CONTACT_NOT_DETECTED == "CONTACT_NOT_DETECTED"

\* DRY_CONTACT_SENSOR_TYPES, in the order the update handler walks them
DRY_CONTACT_SENSOR_TYPES == << "rel", "ren", "rex" >>

\* configs?.some(x => x.key === wire && x.value === "on")
SomeConfigIsOn(configs, wire) ==
  \E i \in 1..Len(configs) :
    configs[i].key = wire /\ configs[i].value = Str(<<"o","n">>)

\* wiring.filter(wire => ...).length === wiring.length
AllWiresOn(configs, wiringKeys) ==
  \A i \in 1..Len(wiringKeys) : SomeConfigIsOn(configs, wiringKeys[i])

\* get isDpsWired(): the wiring entries of the Mini and of the UAH, the Ultra
\* always, any other device never.
IsDpsWired(u) ==
  CASE u.device_type = TYPE_MINI ->
         AllWiresOn(u.configs, <<"wiring_state_d1-dps-neg", "wiring_state_d1-dps-pos">>)
    [] u.device_type = TYPE_UAH ->
         AllWiresOn(u.configs, <<"wiring_state_dps-neg", "wiring_state_dps-pos">>)
    [] u.device_type = TYPE_ULTRA -> TRUE
    [] OTHER -> FALSE

\* get hubDpsState()
HubDpsState(u) ==
  IF ~IsDpsWired(u) THEN CONTACT_DETECTED
  ELSE
    LET relayType == IF u.device_type \in {TYPE_MINI, TYPE_ULTRA}
                     THEN "input_d1_dps" ELSE "input_state_dps"
    IN IF FindConfigValue(u.configs, relayType) = Str(<<"o","n">>)
       THEN CONTACT_DETECTED ELSE CONTACT_NOT_DETECTED

\* getDryContactStateKey: stateKeys.mini on a Mini or Ultra, stateKeys.default
\* otherwise
GetDryContactStateKey(device_type, sensorType) ==
  IF IsMiniVariant(device_type)
  THEN CASE sensorType = "rel" -> "input_d1_rel"
         [] sensorType = "ren" -> "input_d1_ren"
         [] sensorType = "rex" -> "input_d1_rex"
  ELSE CASE sensorType = "rel" -> "input_state_rel"
         [] sensorType = "ren" -> "input_state_ren"
         [] sensorType = "rex" -> "input_state_rex"

\* getDryContactWiringKeys: wiringKeys.mini on a Mini or Ultra,
\* wiringKeys.default otherwise
GetDryContactWiringKeys(device_type, sensorType) ==
  IF IsMiniVariant(device_type)
  THEN CASE sensorType = "rel" -> <<"wiring_state_d1-rel-neg", "wiring_state_d1-rel-pos">>
         [] sensorType = "ren" -> <<"wiring_state_d1-ren-neg", "wiring_state_d1-ren-pos">>
         [] sensorType = "rex" -> <<"wiring_state_d1-rex-neg", "wiring_state_d1-rex-pos">>
  ELSE CASE sensorType = "rel" -> <<"wiring_state_rel-neg", "wiring_state_rel-pos">>
         [] sensorType = "ren" -> <<"wiring_state_ren-neg", "wiring_state_ren-pos">>
         [] sensorType = "rex" -> <<"wiring_state_rex-neg", "wiring_state_rex-pos">>

\* isDryContactWired
IsDryContactWired(u, sensorType) ==
  IF IsMiniVariant(u.device_type) /\ sensorType = "rel" THEN TRUE
  ELSE LET wiringKeys == GetDryContactWiringKeys(u.device_type, sensorType)
       IN IF Len(wiringKeys) = 0 THEN FALSE ELSE AllWiresOn(u.configs, wiringKeys)

\* A normalization that knows "on" alone.
DryContactClosedWords_OnOnly == { <<"o","n">> }

\* getDryContactState: the case labels that return CONTACT_DETECTED
DryContactClosedWords ==
  { <<"1">>, <<"a","c","t","i","v","e">>, <<"c","l","o","s","e","d">>, <<"o","n">>,
    <<"t","r","u","e">> }

\* getDryContactState
GetDryContactState(u, sensorType) ==
  IF ~IsDryContactWired(u, sensorType) THEN CONTACT_DETECTED
  ELSE
    LET value == FindConfigValue(u.configs, GetDryContactStateKey(u.device_type, sensorType))
        normalizedValue == IF value.t = "string" THEN ToLowerCase(value.v) ELSE <<>>
    IN IF normalizedValue \in DryContactClosedWords
       THEN CONTACT_DETECTED ELSE CONTACT_NOT_DETECTED

\* hasDryContactHardware: the snapshot has an entry under the sensor's state key
HasDryContactHardware(u, sensorType) ==
  \E i \in 1..Len(u.configs) :
    u.configs[i].key = GetDryContactStateKey(u.device_type, sensorType)

\* The hints of a device with no contact sensor enabled.
NoSensorHints == [hasDps |-> FALSE, rel |-> FALSE, ren |-> FALSE, rex |-> FALSE]

NoSensorPub == <<>>

\* configureDps and configureDryContactSensor: the contact sensor of the door
\* position starts at hubDpsState (CONTACT_NOT_DETECTED is what the getter
\* answers without it), an enabled dry contact at getDryContactState, and
\* dryContactStates has no entry ("none") for the others. changed and pub:
\* the sensors whose tracked state the latest update changed and what it
\* published for them, as <<topic, payload>>.
ConfigureSensors(u, hints) ==
  [ hints |-> hints,
    hkDpsState |-> IF hints.hasDps THEN HubDpsState(u) ELSE CONTACT_NOT_DETECTED,
    dryContactStates |->
      [ sensorType \in {"rel", "ren", "rex"} |->
          IF hints[sensorType] THEN GetDryContactState(u, sensorType) ELSE "none" ],
    changed |-> {},
    pub |-> NoSensorPub ]

\* A sensor that reports every change, wired or not.
DryContactPublishes_Always(u, sensorType) == TRUE

\* publishDryContactState: returns before publishing when the sensor is not wired
DryContactPublishes(u, sensorType) == IsDryContactWired(u, sensorType)

\* publishDryContactState: the payload, "false" for CONTACT_DETECTED
ContactPayload(state) == IF state = CONTACT_DETECTED THEN "false" ELSE "true"

\* handleDryContactStateChange(sensorType, getDryContactState(sensorType)) on
\* the sensors record s, under snapshot u
HandleDryContactStateChange(s, u, sensorType) ==
  LET newState == GetDryContactState(u, sensorType)
  IN IF ~s.hints[sensorType] THEN s
     ELSE IF s.dryContactStates[sensorType] = newState THEN s
     ELSE [ s EXCEPT !.dryContactStates[sensorType] = newState,
                     !.changed = @ \cup {sensorType},
                     !.pub = IF DryContactPublishes(u, sensorType)
                             THEN Append(@, <<sensorType, ContactPayload(newState)>>)
                             ELSE @ ]

\* eventHandler, access.data.device.update: the door position part
HandleDpsUpdate(s, u) ==
  IF s.hints.hasDps /\ HubDpsState(u) # s.hkDpsState
  THEN [ s EXCEPT !.hkDpsState = HubDpsState(u),
                  !.changed = @ \cup {"dps"},
                  !.pub = IF IsDpsWired(u)
                          THEN Append(@, <<"dps", ContactPayload(HubDpsState(u))>>)
                          ELSE @ ]
  ELSE s

\* eventHandler, access.data.device.update: the door position part, then the
\* loop over DRY_CONTACT_SENSOR_TYPES
HandleSensorsUpdate(s, u) ==
  LET s0 == HandleDpsUpdate([s EXCEPT !.changed = {}, !.pub = NoSensorPub], u)
      s1 == HandleDryContactStateChange(s0, u, DRY_CONTACT_SENSOR_TYPES[1])
      s2 == HandleDryContactStateChange(s1, u, DRY_CONTACT_SENSOR_TYPES[2])
  IN HandleDryContactStateChange(s2, u, DRY_CONTACT_SENSOR_TYPES[3])

\* ------------------------------------------------------------ access-method switches

AccessMethodTypes == { ACCESS_METHOD_TYPES[n] : n \in 1..Len(ACCESS_METHOD_TYPES) }

\* accessMethodStates, accessMethodConfigs and the switch services of the
\* accessory, by method type; Undefined where there is no entry or service.
\* A service carries the value of its On characteristic and the definition
\* its onGet and onSet handlers were bound to. logged: the method types the
\* latest step called logAccessMethodState for.
NoAccessMethods ==
  [ states |-> [methodType \in AccessMethodTypes |-> Undefined],
    configs |-> [methodType \in AccessMethodTypes |-> Undefined],
    services |-> [methodType \in AccessMethodTypes |-> Undefined],
    logged |-> {} ]

\* get supportsAccessMethods()
SupportsAccessMethods(u) == Len(u.extensions) > 0

\* configureAccessMethodSwitch(definition): acquireService, the handlers bound
\* to definition, On set to definition.state, accessMethodStates.set
ConfigureAccessMethodSwitch(m, definition) ==
  [ m EXCEPT !.services[definition.methodType] =
               [t |-> "service", On |-> definition.state, definition |-> definition],
             !.states[definition.methodType] = Bool(definition.state) ]

\* The loop of configureAccessMethodSwitches from definition i on.
RECURSIVE ConfigureFrom(_, _, _)
ConfigureFrom(m, definitions, i) ==
  IF i > Len(definitions) THEN m
  ELSE ConfigureFrom(
         ConfigureAccessMethodSwitch(
           [m EXCEPT !.configs[definitions[i].methodType] = definitions[i]],
           definitions[i]),
         definitions, i + 1)

\* configureAccessMethodSwitches()
ConfigureAccessMethodSwitches(u) ==
  IF ~SupportsAccessMethods(u) THEN NoAccessMethods
  ELSE ConfigureFrom(NoAccessMethods, DiscoverAccessMethodDefinitions(u.extensions), 1)

\* A refresh that writes and logs every discovered toggle.
ToggleUnchanged_Never(previousState, definition) == FALSE

\* if(previousState === definition.state) continue
ToggleUnchanged(previousState, definition) == previousState = Bool(definition.state)

\* refreshAccessMethodSwitches: the body of its loop over the definitions
RefreshDefinition(m, definition) ==
  LET methodType == definition.methodType
      previousState == m.states[methodType]
      set == [m EXCEPT !.configs[methodType] = definition]
  IN IF set.services[methodType] = Undefined
     THEN ConfigureAccessMethodSwitch(set, definition)
     ELSE IF ToggleUnchanged(previousState, definition) THEN set
     ELSE [ set EXCEPT !.states[methodType] = Bool(definition.state),
                       !.services[methodType].On = definition.state,
                       !.logged = @ \cup {methodType} ]

RECURSIVE RefreshFrom(_, _, _)
RefreshFrom(m, definitions, i) ==
  IF i > Len(definitions) THEN m
  ELSE RefreshFrom(RefreshDefinition(m, definitions[i]), definitions, i + 1)

\* accessMethodStates.delete, accessMethodConfigs.delete and
\* getAccessMethodService(methodType)?.updateCharacteristic(On, false), for
\* every method type of dropped
DropAccessMethods(m, dropped) ==
  [ states |-> [methodType \in AccessMethodTypes |->
                  IF methodType \in dropped THEN Undefined ELSE m.states[methodType]],
    configs |-> [methodType \in AccessMethodTypes |->
                   IF methodType \in dropped THEN Undefined ELSE m.configs[methodType]],
    services |-> [methodType \in AccessMethodTypes |->
                    IF methodType \in dropped /\ m.services[methodType] # Undefined
                    THEN [m.services[methodType] EXCEPT !.On = FALSE]
                    ELSE m.services[methodType]],
    logged |-> m.logged ]

\* Array.from(this.accessMethodStates.keys())
KnownAccessMethods(m) ==
  { methodType \in AccessMethodTypes : m.states[methodType] # Undefined }

\* refreshAccessMethodSwitches()
RefreshAccessMethodSwitches(m, u) ==
  IF ~SupportsAccessMethods(u)
  THEN DropAccessMethods([m EXCEPT !.logged = {}], KnownAccessMethods(m))
  ELSE
    LET definitions == DiscoverAccessMethodDefinitions(u.extensions)
        activeMethods == { definitions[i].methodType : i \in 1..Len(definitions) }
        refreshed == RefreshFrom([m EXCEPT !.logged = {}], definitions, 1)
    IN DropAccessMethods(refreshed, KnownAccessMethods(refreshed) \ activeMethods)

\* The onGet handler of a switch: accessMethodStates.get(definition.methodType)
\* ?? definition.state, on the definition the handler was bound to.
AccessMethodOnGet(m, methodType) ==
  IF m.states[methodType] # Undefined THEN m.states[methodType].v
  ELSE m.services[methodType].definition.state

\* isMatchingAccessMethodExtension(extension, definition)
IsMatchingAccessMethodExtension(extension, definition) ==
  BuildAccessMethodExtensionKey(extension, definition.methodType) = definition.extensionKey

\* updateAccessMethodConfig: updatedExtensions, the extensions of the snapshot
\* with the definition's config entry of the matching extensions set to
\* targetState
UpdatedExtensions(extensions, definition, targetState) ==
  [ i \in 1..Len(extensions) |->
      IF ~IsMatchingAccessMethodExtension(extensions[i], definition) THEN extensions[i]
      ELSE [ extensions[i] EXCEPT !.target_config =
               [ k \in 1..Len(extensions[i].target_config) |->
                   IF extensions[i].target_config[k].config_key # definition.configKey
                   THEN extensions[i].target_config[k]
                   ELSE [ extensions[i].target_config[k] EXCEPT
                            !.config_value = Bool(targetState) ] ] ] ]

\* A handler that sends the update whatever the switch shows.
SetSendsUpdate_Always(targetState, currentState) == TRUE

\* onSet: if(targetState === currentState) return, before any update
SetSendsUpdate(targetState, currentState) == targetState # currentState

\* updateAccessMethodConfig: if(!definition || !extensions?.length) return false
UpdateHasNoTarget(m, u, methodType) ==
  m.configs[methodType] = Undefined \/ Len(u.extensions) = 0

\* The awaited udaApi.updateDevice(this.uda, payload) of a switch, with what
\* its continuation holds on to: the definition read from accessMethodConfigs
\* and the state the handler found.
UpdateCall(u, definition, targetState, currentState) ==
  [ t |-> "call", kind |-> "accessMethod", api |-> "updateDevice",
    methodType |-> definition.methodType, definition |-> definition,
    targetState |-> targetState, currentState |-> currentState, device |-> u,
    payload |-> UpdatedExtensions(u.extensions, definition, targetState) ]

\* The record a controller answers an accepted update with: the device it
\* was sent for, with the extensions of the payload.
UpdatedDevice(c) == [c.device EXCEPT !.extensions = c.payload]

\* updateAccessMethodConfig after a truthy answer: accessMethodConfigs.set and
\* accessMethodStates.set; then logAccessMethodState in onSet. The switch
\* shows the value it was set to.
AccessMethodUpdated(m, c) ==
  [ m EXCEPT !.configs[c.methodType] = [c.definition EXCEPT !.state = c.targetState],
             !.states[c.methodType] = Bool(c.targetState),
             !.services[c.methodType].On = c.targetState,
             !.logged = {c.methodType} ]

\* onSet after a falsy updateAccessMethodConfig: the switch is put back to
\* accessMethodStates.get(definition.methodType) ?? currentState (the timeout
\* of 50 ms is taken with the step).
AccessMethodReverted(m, methodType, currentState) ==
  [ m EXCEPT !.services[methodType].On =
               IF m.states[methodType] # Undefined THEN m.states[methodType].v
               ELSE currentState,
             !.logged = {} ]

\* ------------------------------------------------------------ doorbell

\* hasCapability(capability), for one capability
HasCapability(u, capability) == capability \in u.capabilities

\* isDoorbellEventForDevice(packet)
IsDoorbellEventForDevice(u, connected_uah_id, device_id, event_object_id) ==
  /\ HasCapability(u, "door_bell")
  /\ \/ connected_uah_id = u.unique_id
     \/ device_id = u.unique_id
     \/ event_object_id = u.unique_id

\* doorbellRingRequestId as the constructor leaves it (null). press and pub:
\* whether the latest step sent the SINGLE_PRESS notification, and what it
\* published on the doorbell channel; packet: the data of the latest doorbell
\* event.
NoRing == [requestId |-> NULL, press |-> FALSE, pub |-> <<>>, packet |-> Null]

\* ------------------------------------------------------------ intercom

\* The class the intercom's doorbell capability test names (access-intercom.ts).
UAG3INTERCOM == <<"U","A","G","3","I","N","T","E","R","C","O","M">>

\* An intercom that rings for its class alone, whatever the capabilities say.
IntercomIsDoorbellCapable_ClassOnly(u, intercomDeviceClass) ==
  intercomDeviceClass = UAG3INTERCOM

\* AccessIntercom: get isDoorbellCapable()
IntercomIsDoorbellCapable(u, intercomDeviceClass) ==
  HasCapability(u, "door_bell") \/ intercomDeviceClass = UAG3INTERCOM

\* AccessIntercom: isDoorbellEventForDevice(packet)
IntercomIsDoorbellEventForDevice(u, intercomDeviceClass, connected_uah_id, device_id, event_object_id) ==
  /\ IntercomIsDoorbellCapable(u, intercomDeviceClass)
  /\ \/ connected_uah_id = u.unique_id
     \/ device_id = u.unique_id
     \/ event_object_id = u.unique_id

\* AccessIntercom: the constructor, for the snapshot it is given. deviceClass
\* is the intercom's own normalisation of device_type; requestId is its
\* doorbellRingRequestId; press and pub are what its latest step notified.
AccessIntercom(device) ==
  [ deviceClass |-> NormalizeDeviceClass(device.device_type),
    requestId |-> NULL, press |-> FALSE, pub |-> <<>> ]

\* AccessIntercom.eventHandler: access.remote_view, access.remote_call
IntercomRing(i, u, connected_uah_id, device_id, event_object_id, request_id) ==
  IF IntercomIsDoorbellEventForDevice(u, i.deviceClass, connected_uah_id, device_id,
                                      event_object_id)
  THEN [i EXCEPT !.requestId = request_id, !.press = TRUE, !.pub = <<"true">>]
  ELSE [i EXCEPT !.press = FALSE, !.pub = <<>>]

\* AccessIntercom.eventHandler: access.remote_view.change,
\* access.remote_call.change
IntercomChange(i, remote_call_request_id) ==
  IF i.requestId = remote_call_request_id
  THEN [i EXCEPT !.requestId = NULL, !.press = FALSE, !.pub = <<"false">>]
  ELSE [i EXCEPT !.press = FALSE, !.pub = <<>>]

\* ------------------------------------------------------------ construction

\* The constructor, once the snapshot and the options are given.
Constructed(hints) ==
  /\ deviceClass = NormalizeDeviceClass(uda.device_type)
  /\ lockDelayInterval = ConstructLockDelayInterval(configuredLockDelay, isG3Reader)
  /\ isOnline = TRUE
  /\ g3ReaderLockStateOverride = NULL
  /\ hkLockState = HubLockState(uda, NULL, isG3Reader)
  /\ lockResetTimer = Null
  /\ timers = {}
  /\ inflight = EmptyBag
  /\ last = [op |-> "constructor", ret |-> "none", err |-> "none", call |-> "none",
             pub |-> NoPub, was |-> hkLockState, cleared |-> FALSE, scheduled |-> {}]
  /\ probe = NoProbe
  /\ sensors = ConfigureSensors(uda, hints)
  /\ doorbell = NoRing
  /\ methods = ConfigureAccessMethodSwitches(uda)
  /\ listening = TRUE
  /\ intercom = AccessIntercom(uda)

Init ==
  /\ \E inst \in Instances, relay \in RelayValues :
       /\ uda = Device(inst[1][1], inst[1][2], inst[1][3], inst[1][4],
                       ConfigsWith(inst[1][1], relay))
       /\ configuredLockDelay = inst[2]
  /\ Constructed(NoSensorHints)

\* ------------------------------------------------------------ transport

\* A transport call the instance awaits: the unlock-duration call
\* (udaApi.unlock, api "unlock") or the PUT to the location lock endpoint
\* (udaApi.retrieve, api "lock"), issued by hubLockCommand (kind "command")
\* or by resetLockToDefaultState (kind "reset").
Call(kind, api, isLocking, duration, device, isDefaultUnlock, attempt) ==
  [ t |-> "call", kind |-> kind, api |-> api, isLocking |-> isLocking,
    duration |-> duration, device |-> CommandTarget(device),
    isDefaultUnlock |-> isDefaultUnlock, attempt |-> attempt ]

\* The model keeps at most MaxInFlight transport calls awaited.
CallRoom == BagCardinality(inflight) < MaxInFlight

Awaited == BagToSet(inflight)
Issue(call) == inflight (+) SetToBag({call})
Answer(call) == inflight (-) SetToBag({call})

\* What a transport call can answer: udaApi.unlock resolves true or false or
\* throws; udaApi.retrieve resolves null or a response whose json() throws or
\* carries codeS, or throws.
Outcomes(api) ==
  IF api = "unlock" THEN {"true", "false", "throw"}
  ELSE {"SUCCESS", "FAILURE", "unparsable", "null", "throw"}

\* commandSucceeded: udaApi.unlock's value, or lockG3Reader's (codeS === "SUCCESS").
CommandSucceeded(api, outcome) ==
  IF api = "unlock" THEN outcome = "true" ELSE outcome = "SUCCESS"

\* The failure a falsy command is logged with.
FailureOf(outcome) ==
  IF outcome = "unparsable" THEN "ResponseParseFailure" ELSE "TransportFailure"

\* ------------------------------------------------------------ hubLockCommand

\* A command that does not look at the connection state.
CommandBlockedOffline_Never(online) == FALSE

\* if(!this.isOnline) return false
CommandBlockedOffline(online) == ~online

\* lockG3Reader's location: device.location_id ?? uda.location_id ?? uda.door?.unique_id
LockLocationId(device, u) ==
  IF device.location_id # NULL THEN device.location_id
  ELSE IF u.location_id # NULL THEN u.location_id
  ELSE u.door_unique_id

\* A command that takes every unlock for a default unlock.
IsDefaultUnlock_AnyUnlock(isLocking, interval) == ~isLocking

\* const isDefaultUnlock = !isLocking && (this.lockDelayInterval === undefined)
IsDefaultUnlock(isLocking, interval) == ~isLocking /\ interval.t = "undefined"

\* A lock command that leaves the pending timer alone.
CommandClearsTimer_Never(isLocking) == FALSE

\* if(isLocking && this.lockResetTimer): whether the command asks for
\* clearTimeout before its transport call
CommandClearsTimer(isLocking) == isLocking

\* A command that cancels the timer before its offline and device checks.
RejectedCommandTimers_ClearedFirst(st, isLocking) ==
  IF isLocking THEN ClearLockResetTimer(st) ELSE st

\* The timers a command leaves when it returns at its offline check or at its
\* device check: both returns come before the clearTimeout of the command.
RejectedCommandTimers(st, isLocking) == st

\* hubLockCommand up to its await. endpoint: whether getApiEndpoint("location")
\* resolves when lockG3Reader asks for it.
HubLockCommand(isLocking, endpoint) ==
  LET unlockDuration == UnlockDuration(isLocking, lockDelayInterval)
      device == GetCommandDeviceConfig(uda, isG3Reader)
      cleared == IF CommandClearsTimer(isLocking) THEN ClearLockResetTimer(TimerState)
                 ELSE TimerState
      rejected == RejectedCommandTimers(TimerState, isLocking)
      isDefaultUnlock == IsDefaultUnlock(isLocking, lockDelayInterval)
      viaLocation == isG3Reader /\ unlockDuration.t = "number" /\ unlockDuration.v = 0
      call == Call("command", IF viaLocation THEN "lock" ELSE "unlock",
                   isLocking, unlockDuration, device, isDefaultUnlock, 0)
  IN
  \/ /\ CommandBlockedOffline(isOnline)
     /\ timers' = rejected.timers
     /\ lockResetTimer' = rejected.handle
     /\ last' = Report("hubLockCommand", "false", "Offline", "none", NoPub, rejected)
     /\ UNCHANGED << intercom, listening, probe, sensors, doorbell, methods, uda, deviceClass, configuredLockDelay, lockDelayInterval, isOnline,
                     hkLockState, g3ReaderLockStateOverride, inflight >>
  \/ /\ ~CommandBlockedOffline(isOnline)
     /\ device.t = "null"
     /\ timers' = rejected.timers
     /\ lockResetTimer' = rejected.handle
     /\ last' = Report("hubLockCommand", "false", "AddressingFailure", "none", NoPub,
                       rejected)
     /\ UNCHANGED << intercom, listening, probe, sensors, doorbell, methods, uda, deviceClass, configuredLockDelay, lockDelayInterval, isOnline,
                     hkLockState, g3ReaderLockStateOverride, inflight >>
  \/ /\ ~CommandBlockedOffline(isOnline)
     /\ device.t # "null"
     /\ viaLocation
     /\ ~Truthy(LockLocationId(device, uda)) \/ ~endpoint
     /\ timers' = cleared.timers
     /\ lockResetTimer' = cleared.handle
     /\ last' = Report("hubLockCommand", "false",
                       IF Truthy(LockLocationId(device, uda)) THEN "TransportFailure"
                       ELSE "AddressingFailure", "none", NoPub, cleared)
     /\ UNCHANGED << intercom, listening, probe, sensors, doorbell, methods, uda, deviceClass, configuredLockDelay, lockDelayInterval, isOnline,
                     hkLockState, g3ReaderLockStateOverride, inflight >>
  \/ /\ ~CommandBlockedOffline(isOnline)
     /\ device.t # "null"
     /\ viaLocation => (Truthy(LockLocationId(device, uda)) /\ endpoint)
     /\ CallRoom
     /\ timers' = cleared.timers
     /\ lockResetTimer' = cleared.handle
     /\ inflight' = Issue(call)
     /\ last' = Report("hubLockCommand", "pending", "none", call.api, NoPub, cleared)
     /\ UNCHANGED << intercom, listening, probe, sensors, doorbell, methods, uda, deviceClass, configuredLockDelay, lockDelayInterval, isOnline,
                     hkLockState, g3ReaderLockStateOverride >>

\* A command that leaves a state of Secured set while it was awaiting alone.
CommandEffect_YieldsToSecured(succeeded, isLocking, hk, override, isG3) ==
  IF ~succeeded \/ (~isLocking /\ hk = SECURED) THEN [hk |-> hk, override |-> override]
  ELSE LET targetState == IF isLocking THEN SECURED ELSE UNSECURED
       IN [hk |-> targetState, override |-> IF isG3 THEN targetState ELSE override]

\* A command that applies its target state whether or not it succeeded.
CommandEffect_Optimistic(succeeded, isLocking, hk, override, isG3) ==
  LET targetState == IF isLocking THEN SECURED ELSE UNSECURED
  IN [hk |-> targetState, override |-> IF isG3 THEN targetState ELSE override]

\* A command that records the override on every device.
CommandEffect_OverrideAnyDevice(succeeded, isLocking, hk, override, isG3) ==
  IF ~succeeded THEN [hk |-> hk, override |-> override]
  ELSE LET targetState == IF isLocking THEN SECURED ELSE UNSECURED
       IN [hk |-> targetState, override |-> targetState]

\* What hubLockCommand does to the lock state and the override once its
\* transport call has answered: nothing unless the command succeeded.
CommandEffect(succeeded, isLocking, hk, override, isG3) ==
  IF ~succeeded THEN [hk |-> hk, override |-> override]
  ELSE LET targetState == IF isLocking THEN SECURED ELSE UNSECURED
       IN [hk |-> targetState, override |-> IF isG3 THEN targetState ELSE override]

\* hubLockCommand from its await on: the transport call c answers outcome.
CommandResponse(c, outcome) ==
  LET succeeded == outcome # "throw" /\ CommandSucceeded(c.api, outcome)
      effect == CommandEffect(succeeded, c.isLocking, hkLockState,
                              g3ReaderLockStateOverride, isG3Reader)
      scheduled == IF succeeded /\ c.isDefaultUnlock
                   THEN ScheduleDefaultLockReset(TimerState, c.device, 0, Undefined, isG3Reader)
                   ELSE TimerState
  IN
  /\ c.kind = "command"
  /\ TimerRoom
  /\ inflight' = Answer(c)
  /\ hkLockState' = effect.hk
  /\ g3ReaderLockStateOverride' = effect.override
  /\ timers' = scheduled.timers
  /\ lockResetTimer' = scheduled.handle
  /\ last' = Report("hubLockCommand.resumed",
                    IF outcome = "throw" THEN "rejected"
                    ELSE IF succeeded THEN "true" ELSE "false",
                    IF succeeded THEN "none" ELSE FailureOf(outcome), "none", NoPub,
                    scheduled)
  /\ UNCHANGED << intercom, listening, probe, sensors, doorbell, methods, uda, deviceClass, configuredLockDelay, lockDelayInterval, isOnline >>

\* ------------------------------------------------------------ auto-reset

\* A retry test that is off by one.
ResetMayRetry_OffByOne(nextAttempt) == nextAttempt <= LOCK_RESET_MAX_ATTEMPTS

\* if(nextAttempt < LOCK_RESET_MAX_ATTEMPTS): whether a failed attempt retries.
ResetMayRetry(nextAttempt) == nextAttempt < LOCK_RESET_MAX_ATTEMPTS

\* A retry delay that grows with the attempt number.
RetryDelay_Growing(nextAttempt) == LOCK_RESET_RETRY_DELAY * nextAttempt

\* The delay argument of scheduleDefaultLockReset(device, nextAttempt,
\* LOCK_RESET_RETRY_DELAY) on the three failure paths.
RetryDelay(nextAttempt) == LOCK_RESET_RETRY_DELAY

\* The three failure paths of resetLockToDefaultState (offline, command
\* failed, error caught): schedule the next attempt after the retry delay, or
\* log the failure and give up.
RetryOrGiveUp(st, device, attempt, isG3) ==
  LET nextAttempt == attempt + 1
  IN IF ResetMayRetry(nextAttempt)
     THEN [st |-> ScheduleDefaultLockReset(st, device, nextAttempt,
                                           Num(RetryDelay(nextAttempt)), isG3),
           err |-> "none"]
     ELSE [st |-> st, err |-> "RetryExhausted"]

\* A reset that sends the relock command on every device.
ResetForcesSecured_Never(isG3) == FALSE

\* resetLockToDefaultState: if(this.isG3Reader) force Secured and return.
ResetForcesSecured(isG3) == isG3

\* The timeout callback of scheduleDefaultLockReset, and resetLockToDefaultState
\* up to its await.
TimerFire(tm) ==
  LET fired == [TimerState EXCEPT !.timers = timers \ {tm}, !.handle = Null]
      call == Call("reset", "unlock", TRUE, Num(0), tm.device, FALSE, tm.attempt)
      retry == RetryOrGiveUp(fired, tm.device, tm.attempt, isG3Reader)
  IN
  \/ /\ ResetForcesSecured(isG3Reader)
     /\ g3ReaderLockStateOverride' = SECURED
     /\ hkLockState' = SECURED
     /\ timers' = fired.timers
     /\ lockResetTimer' = fired.handle
     /\ last' = Report("resetLockToDefaultState", "none", "none", "none", NoPub, fired)
     /\ UNCHANGED << intercom, listening, probe, sensors, doorbell, methods, uda, deviceClass, configuredLockDelay, lockDelayInterval, isOnline,
                     inflight >>
  \/ /\ ~ResetForcesSecured(isG3Reader)
     /\ ~isOnline
     /\ timers' = retry.st.timers
     /\ lockResetTimer' = retry.st.handle
     /\ last' = Report("resetLockToDefaultState", "none", retry.err, "none", NoPub,
                       retry.st)
     /\ UNCHANGED << intercom, listening, probe, sensors, doorbell, methods, uda, deviceClass, configuredLockDelay, lockDelayInterval, isOnline,
                     hkLockState, g3ReaderLockStateOverride, inflight >>
  \/ /\ ~ResetForcesSecured(isG3Reader)
     /\ isOnline
     /\ CallRoom
     /\ timers' = fired.timers
     /\ lockResetTimer' = fired.handle
     /\ inflight' = Issue(call)
     /\ last' = Report("resetLockToDefaultState", "pending", "none", call.api, NoPub,
                       fired)
     /\ UNCHANGED << intercom, listening, probe, sensors, doorbell, methods, uda, deviceClass, configuredLockDelay, lockDelayInterval, isOnline,
                     hkLockState, g3ReaderLockStateOverride >>

\* resetLockToDefaultState from its await on: the relock call c answers outcome.
ResetResponse(c, outcome) ==
  LET succeeded == outcome = "true"
      retry == IF succeeded THEN [st |-> TimerState, err |-> "none"]
               ELSE RetryOrGiveUp(TimerState, c.device, c.attempt, isG3Reader)
  IN
  /\ c.kind = "reset"
  /\ TimerRoom
  /\ inflight' = Answer(c)
  /\ hkLockState' = IF succeeded THEN SECURED ELSE hkLockState
  /\ timers' = retry.st.timers
  /\ lockResetTimer' = retry.st.handle
  /\ last' = Report("resetLockToDefaultState.resumed",
                    IF succeeded THEN "true" ELSE "false", retry.err, "none", NoPub,
                    retry.st)
  /\ UNCHANGED << intercom, listening, probe, sensors, doorbell, methods, uda, deviceClass, configuredLockDelay, lockDelayInterval, isOnline,
                  g3ReaderLockStateOverride >>

\* ------------------------------------------------------------ events

\* An unlock event that sets the override of a reader to Unsecured.
OverrideAfterUnlockEvent_Unsecured(override, isG3) ==
  IF isG3 THEN UNSECURED ELSE override

\* handleUnlockEvent: if(this.isG3Reader) this.g3ReaderLockStateOverride = null
OverrideAfterUnlockEvent(override, isG3) == IF isG3 THEN NULL ELSE override

\* An unlock event that starts the auto-reset whatever the delay interval.
EventSchedulesReset_AnyInterval(interval, device) == device.t # "null"

\* handleUnlockEvent: if(this.lockDelayInterval === undefined) and if(device)
EventSchedulesReset(interval, device) == interval.t = "undefined" /\ device.t # "null"

\* handleUnlockEvent(), reported as the handling of event.
HandleUnlockEvent(event) ==
  LET device == GetCommandDeviceConfig(uda, isG3Reader)
      scheduled == IF EventSchedulesReset(lockDelayInterval, device)
                   THEN ScheduleDefaultLockReset(TimerState, device, 0, Undefined, isG3Reader)
                   ELSE TimerState
  IN
  /\ TimerRoom
  /\ g3ReaderLockStateOverride' = OverrideAfterUnlockEvent(g3ReaderLockStateOverride,
                                                           isG3Reader)
  /\ hkLockState' = UNSECURED
  /\ timers' = scheduled.timers
  /\ lockResetTimer' = scheduled.handle
  /\ last' = Report(event, "none", "none", "none", <<"false">>, scheduled)
  /\ UNCHANGED << intercom, listening, probe, sensors, doorbell, methods, uda, deviceClass, configuredLockDelay, lockDelayInterval, isOnline,
                  inflight >>

\* eventHandler: access.data.device.remote_unlock, access.data.location.remote_unlock
RemoteUnlockEvent(event) ==
  /\ event \in {"access.data.device.remote_unlock", "access.data.location.remote_unlock"}
  /\ HandleUnlockEvent(event)

\* A match that accepts every access-granted event on a reader.
IsG3ReaderAccessGrantEvent_AnyTarget(event, event_object_id, u, isG3) == isG3

\* isG3ReaderAccessGrantEvent(packet)
IsG3ReaderAccessGrantEvent(event, event_object_id, u, isG3) ==
  /\ isG3
  /\ CASE event = "access.data.device.access_granted" ->
            event_object_id = u.unique_id
       [] event = "access.data.location.access_granted" ->
            \/ (Truthy(u.location_id) /\ event_object_id = u.location_id)
            \/ (Truthy(u.door_unique_id) /\ event_object_id = u.door_unique_id)
       [] OTHER -> FALSE

\* The object ids an access-granted event may carry.
EventObjectIds == {"dev-1", "loc-1", "door-1", "other"}

\* eventHandler: access.data.device.access_granted, access.data.location.access_granted
AccessGrantedEvent(event, event_object_id) ==
  /\ event \in {"access.data.device.access_granted", "access.data.location.access_granted"}
  /\ IF IsG3ReaderAccessGrantEvent(event, event_object_id, uda, isG3Reader)
     THEN HandleUnlockEvent(event)
     ELSE /\ last' = Report("eventHandler", "ignored", "none", "none", NoPub, TimerState)
          /\ UNCHANGED << intercom, listening, probe, sensors, doorbell, methods, uda, deviceClass, configuredLockDelay, lockDelayInterval, isOnline,
                          hkLockState, g3ReaderLockStateOverride, lockResetTimer, timers,
                          inflight >>

\* An update that keeps the override it finds.
OverrideAfterUpdate_Kept(override, isG3) == override

\* if(this.isG3Reader) this.g3ReaderLockStateOverride = null
OverrideAfterUpdate(override, isG3) == IF isG3 THEN NULL ELSE override

\* An update that starts the auto-reset whatever the delay interval.
UpdateSchedulesReset_AnyInterval(interval, device) == device.t # "null"

\* The update handler, on a changed state other than Secured:
\* else if(this.lockDelayInterval === undefined) and if(device)
UpdateSchedulesReset(interval, device) == interval.t = "undefined" /\ device.t # "null"

\* eventHandler: access.data.device.update, the lock part, the contact
\* sensors and the access-method switches. The controller has replaced the
\* snapshot by newUda before the handler runs.
HandleDeviceUpdate(newUda) ==
  LET override == OverrideAfterUpdate(g3ReaderLockStateOverride, isG3Reader)
      updatedLockState == HubLockState(newUda, override, isG3Reader)
      changed == updatedLockState # hkLockState
      device == GetCommandDeviceConfig(newUda, isG3Reader)
      st == IF ~changed THEN TimerState
            ELSE IF updatedLockState = SECURED THEN ClearLockResetTimer(TimerState)
            ELSE IF UpdateSchedulesReset(lockDelayInterval, device)
                 THEN ScheduleDefaultLockReset(TimerState, device, 0, Undefined, isG3Reader)
            ELSE TimerState
  IN
  /\ TimerRoom
  /\ uda' = newUda
  /\ g3ReaderLockStateOverride' = override
  /\ hkLockState' = updatedLockState
  /\ timers' = st.timers
  /\ lockResetTimer' = st.handle
  /\ last' = Report("access.data.device.update", "none", "none", "none",
                    IF ~changed THEN NoPub
                    ELSE IF updatedLockState = SECURED THEN <<"true">> ELSE <<"false">>,
                    st)
  /\ sensors' = HandleSensorsUpdate(sensors, newUda)
  /\ methods' = RefreshAccessMethodSwitches(methods, newUda)
  /\ UNCHANGED << intercom, listening, probe, doorbell, deviceClass, configuredLockDelay, lockDelayInterval, isOnline,
                  inflight >>

\* An update that replaces the relay entry of the snapshot.
DeviceUpdateEvent(relayValue) ==
  HandleDeviceUpdate([uda EXCEPT !.configs = ConfigsWith(uda.device_type, relayValue)])

\* The device goes offline or comes back (the parent class's isOnline).
SetOnline(online) ==
  /\ online # isOnline
  /\ isOnline' = online
  /\ last' = Report("isOnline", "none", "none", "none", NoPub, TimerState)
  /\ UNCHANGED << intercom, listening, probe, sensors, doorbell, methods, uda, deviceClass, configuredLockDelay, lockDelayInterval,
                  hkLockState, g3ReaderLockStateOverride, lockResetTimer, timers, inflight >>

\* ------------------------------------------------------------ specification

Next ==
  \/ \E isLocking \in BOOLEAN :
       \E endpoint \in (IF isG3Reader /\ isLocking THEN BOOLEAN ELSE {TRUE}) :
         HubLockCommand(isLocking, endpoint)
  \/ \E c \in Awaited, outcome \in {"true", "false", "throw", "SUCCESS", "FAILURE",
                                      "unparsable", "null"} :
       /\ outcome \in Outcomes(c.api)
       /\ CommandResponse(c, outcome)
  \/ \E tm \in timers : TimerFire(tm)
  \/ \E c \in Awaited, outcome \in {"true", "false", "throw"} : ResetResponse(c, outcome)
  \/ \E event \in {"access.data.device.remote_unlock", "access.data.location.remote_unlock"} :
       RemoteUnlockEvent(event)
  \/ \E event \in {"access.data.device.access_granted", "access.data.location.access_granted"},
        id \in EventObjectIds : AccessGrantedEvent(event, id)
  \/ \E relayValue \in RelayValues : DeviceUpdateEvent(relayValue)
  \/ \E online \in BOOLEAN : SetOnline(online)

Spec == Init /\ [][Next]_vars

\* A pending timeout fires; an awaited transport call answers.
FireTimer == \E tm \in timers : TimerFire(tm)
AnswerCall ==
  \E c \in Awaited, outcome \in {"true", "false", "throw", "SUCCESS", "FAILURE",
                                  "unparsable", "null"} :
    /\ outcome \in Outcomes(c.api)
    /\ CommandResponse(c, outcome) \/ ResetResponse(c, outcome)

\* The runtime fires every timeout that stays pending and the transport
\* answers every call that stays awaited.
FairSpec == Spec /\ WF_vars(FireTimer) /\ WF_vars(AnswerCall)

\* ------------------------------------------------------------ claims

\* C1: a device instance has at most one auto-reset timer pending, and it is
\* the one the instance holds the handle of: scheduling always cancels the
\* stored timer before installing the new one.
C1_AtMostOneResetTimer ==
  /\ Cardinality(timers) <= 1
  /\ lockResetTimer.t = "null" <=> timers = {}
  /\ lockResetTimer.t = "timeout" => \E tm \in timers : tm.id = lockResetTimer.id

\* A default unlock has just replaced the pending timer of an earlier one by
\* its own: one timer is pending, at attempt 0.
C1_Witness ==
  /\ last.op = "access.data.device.remote_unlock"
  /\ last.cleared
  /\ last.scheduled = {0}
  /\ Cardinality(timers) = 1
  /\ \A tm \in timers : tm.attempt = 0

\* C2: a chain of auto-reset attempts is numbered from 0 and never reaches
\* attempt number LOCK_RESET_MAX_ATTEMPTS: no timer and no relock call carries
\* a 7th attempt, and the step that reports the exhausted retries installs no
\* timer.
C2_BoundedRetries ==
  /\ \A tm \in timers : tm.attempt \in 0..5
  /\ \A c \in Awaited : c.kind = "reset" => c.attempt \in 0..5
  /\ last.err = "RetryExhausted" => last.scheduled = {}
  /\ \A n \in last.scheduled : n \in 0..5

\* The 6th attempt of a chain has failed on a hub and the failure is reported.
C2_Witness ==
  /\ ~isG3Reader
  /\ last.op = "resetLockToDefaultState.resumed"
  /\ last.ret = "false"
  /\ last.err = "RetryExhausted"

\* Steps the instance takes on its own: a continuation of a command and the
\* timer callback with its continuation.
SystemStep(r) ==
  r.op \in {"hubLockCommand.resumed", "resetLockToDefaultState",
            "resetLockToDefaultState.resumed"}

UnlockApplied(r) ==
  \/ r.op = "hubLockCommand.resumed" /\ r.ret = "true" /\ r.scheduled = {0}
  \/ r.op \in {"access.data.device.remote_unlock",
               "access.data.location.remote_unlock",
               "access.data.device.access_granted",
               "access.data.location.access_granted"}

DefaultUnlockApplied ==
  /\ configuredLockDelay.t = "undefined"
  /\ hkLockState = UNSECURED
  /\ last.scheduled = {0}
  /\ UnlockApplied(last)

LockHealed == hkLockState = SECURED \/ last.err = "RetryExhausted"

\* C3: with no delay interval configured, once a default unlock has been
\* applied (a successful unlock command, a remote unlock or a matching
\* access-granted event) and has scheduled its auto-reset, the tracked lock
\* state eventually is Secured or the exhausted retries are reported. Read in
\* the claim's favour: only behaviours in which the later commands and events
\* eventually stop arriving are considered, so that what remains are the
\* timer callbacks and the transport's answers.
C3_SelfHealing ==
  (<>[][SystemStep(last')]_vars) => (DefaultUnlockApplied ~> LockHealed)

\* C4: a step in which hubLockCommand returns false, before or after its
\* await, leaves the tracked lock state and the G3 reader override as they
\* were.
C4_NoOptimisticMutation ==
  [][ (last'.op \in {"hubLockCommand", "hubLockCommand.resumed"} /\ last'.ret = "false")
        => /\ hkLockState' = hkLockState
           /\ g3ReaderLockStateOverride' = g3ReaderLockStateOverride ]_vars

\* A lock command sent to the location endpoint of a reader that shows
\* Unsecured got an unparsable response and returned false.
C4_Witness ==
  /\ last.op = "hubLockCommand.resumed"
  /\ last.ret = "false"
  /\ last.err = "ResponseParseFailure"
  /\ last.was = UNSECURED
  /\ hkLockState = UNSECURED

\* C5: hubLockCommand called while the device is offline returns false,
\* issues no transport call and leaves the lock state, the override and the
\* pending auto-reset timer as they were.
C5_OfflineCommandFails ==
  [][ (~isOnline /\ last'.op = "hubLockCommand")
        => /\ last'.ret = "false"
           /\ last'.call = "none"
           /\ inflight' = inflight
           /\ hkLockState' = hkLockState
           /\ g3ReaderLockStateOverride' = g3ReaderLockStateOverride
           /\ lockResetTimer' = lockResetTimer
           /\ timers' = timers ]_vars

\* A command was refused as offline while an auto-reset timer was pending,
\* and the timer is still pending.
C5_Witness ==
  /\ ~isOnline
  /\ last.op = "hubLockCommand"
  /\ last.ret = "false"
  /\ last.err = "Offline"
  /\ lockResetTimer.t = "timeout"
  /\ timers # {}

\* A G3 reader whose snapshot carries neither a location id nor a door id.
NoResolvableLocation ==
  isG3Reader /\ ~Truthy(uda.location_id) /\ ~Truthy(uda.door_unique_id)

\* What C6 says of a command step: it returns false, as an addressing failure
\* when the device is online, issues no transport call and leaves the tracked
\* lock state as it was.
FailsUnaddressed ==
  /\ last'.ret = "false"
  /\ isOnline => last'.err = "AddressingFailure"
  /\ last'.call = "none"
  /\ inflight' = inflight
  /\ hkLockState' = hkLockState

\* C6 as stated: every command on a G3 reader with no resolvable location id
\* fails unaddressed, whatever capabilities its snapshot advertises.
C6_AnyCapabilities ==
  [][ (NoResolvableLocation /\ last'.op = "hubLockCommand") => FailsUnaddressed ]_vars

\* C6, amended: every command on a G3 reader with no resolvable location id
\* whose snapshot does not advertise the hub capability fails unaddressed.
C6_NoLocationFails ==
  [][ (NoResolvableLocation /\ "is_hub" \notin uda.capabilities
         /\ last'.op = "hubLockCommand") => FailsUnaddressed ]_vars

\* An online reader without location, door and hub capability refused a command.
C6_Witness ==
  /\ NoResolvableLocation
  /\ "is_hub" \notin uda.capabilities
  /\ isOnline
  /\ last.op = "hubLockCommand"
  /\ last.ret = "false"
  /\ last.err = "AddressingFailure"

\* The unlock-duration argument as C7 words it, from the configured option.
StatedDuration(isLocking) ==
  IF isLocking THEN Num(0)
  ELSE IF isG3Reader \/ configuredLockDelay.t = "undefined" THEN Undefined
  ELSE IF configuredLockDelay.v < 0 THEN Undefined
  ELSE IF configuredLockDelay.v = 0 THEN Infinity
  ELSE Num(configuredLockDelay.v)

\* C7: the unlock-duration argument of every call hubLockCommand has issued
\* is 0 when locking and, when unlocking, undefined with no interval
\* configured, +infinity with interval 0, the minute count N with N > 0; a G3
\* reader and a negative setting count as no interval.
C7_UnlockDurationArgument ==
  \A c \in Awaited : c.kind = "command" => c.duration = StatedDuration(c.isLocking)

\* An unlock command with the interval configured as 0 awaits its call, sent
\* with +infinity.
C7_Witness ==
  /\ configuredLockDelay = Num(0)
  /\ \E c \in Awaited : c.kind = "command" /\ ~c.isLocking /\ c.duration = Infinity

\* C8: with no LockDelayInterval configured, the first automatic relock
\* attempt (attempt 0) is scheduled five seconds after the unlock, on every
\* device variant.
C8_FirstRelockAfterFiveSeconds ==
  configuredLockDelay.t = "undefined"
    => \A tm \in timers : tm.attempt = 0 => tm.delay = 5000

\* The number of auto-reset attempts awaiting the response of their relock
\* command.
ResetsInProgress ==
  LET resets == {c \in Awaited : c.kind = "reset"}
  IN IF resets = {} THEN 0
     ELSE IF Cardinality(resets) = 1 THEN CopiesIn(CHOOSE c \in resets : TRUE, inflight)
     ELSE 2

\* C9: at most one auto-reset attempt of the device awaits the response of
\* its relock command at any time.
C9_OneResetInProgress == ResetsInProgress <= 1

\* The relay value of the snapshot's lock relay entry.
LockRelayValue(u) == FindConfigValue(u.configs, LockRelayKey(u.device_type))

\* C10: on a hub-capable standard hub with no configured delay that shows
\* Secured, a device update whose relay value is active publishes one lock
\* notification, Unsecured, and installs one auto-reset timer, at attempt 0
\* with the default delay of a hub, as the timer of the instance.
C10_RelayActiveUpdate ==
  [][ (/\ uda.device_type = TYPE_UAH
       /\ "is_hub" \in uda.capabilities
       /\ configuredLockDelay.t = "undefined"
       /\ hkLockState = SECURED
       /\ last'.op = "access.data.device.update"
       /\ LockRelayValue(uda') = RelayOn)
        => /\ last'.pub = <<"false">>
           /\ hkLockState' = UNSECURED
           /\ last'.scheduled = {0}
           /\ lockResetTimer'.t = "timeout"
           /\ timers' = {[id |-> lockResetTimer'.id, device |-> CommandTarget(uda'),
                          attempt |-> 0, delay |-> DEFAULT_LOCK_RESET_DELAY]} ]_vars

\* The update of a hub that showed Secured reported the relay active.
C10_Witness ==
  /\ uda.device_type = TYPE_UAH
  /\ "is_hub" \in uda.capabilities
  /\ configuredLockDelay.t = "undefined"
  /\ last.op = "access.data.device.update"
  /\ last.was = SECURED
  /\ LockRelayValue(uda) = RelayOn
  /\ last.pub = <<"false">>
  /\ last.scheduled = {0}

\* The reports of the steps in which eventHandler processes an event.
EventOps ==
  {"access.data.device.remote_unlock", "access.data.location.remote_unlock",
   "access.data.device.access_granted", "access.data.location.access_granted",
   "eventHandler", "access.data.device.update"}

\* C11: processing an event publishes on the lock channel exactly once when
\* it changed the tracked lock state and nothing when it left the state at
\* its previous value.
C11_PublishOncePerChange ==
  last.op \in EventOps
    => IF last.was = hkLockState THEN last.pub = NoPub ELSE Len(last.pub) = 1

\* ------------------------------------------------------------ getters on their own

\* Every way of writing the word w in upper- and lower-case letters.
CaseVariants(w) ==
  { [i \in 1..Len(w) |-> IF i \in S THEN UpperChar(w[i]) ELSE w[i]] :
      S \in SUBSET (1..Len(w)) }

\* The relay values hubLockState is evaluated for: no entry, null, booleans,
\* numbers, every spelling of the words it knows and some it does not know.
ProbeRelayValues ==
  { Undefined, Null, Bool(TRUE), Bool(FALSE), Num(0), Num(1), Num(2),
    Str(<<>>), Str(<<"1">>), Str(<<"0">>), Str(<<"o","n","n">>), RelayOther }
    \cup { Str(v) : v \in UNION { CaseVariants(w) : w \in ActiveWords \cup InactiveWords } }

ProbeDeviceTypes == { TYPE_UAH, TYPE_MINI, TYPE_ULTRA, TYPE_G3_READER }

LockRelayKeys == { "output_d1_lock_relay", "input_state_rly-lock_dry" }

\* The overrides an instance of the class can hold: only a G3 reader has one.
ProbeOverrides(isG3) == IF isG3 THEN { NULL, SECURED, UNSECURED } ELSE { NULL }

\* get hubLockState() read on a snapshot whose configs hold value under key.
ReadHubLockState(device_type, key, value, override) ==
  LET u == Device(device_type, {}, NULL, NULL,
                  IF value.t = "undefined" THEN <<>>
                  ELSE << [key |-> key, value |-> value] >>)
      isG3 == isG3ReaderDeviceClass(NormalizeDeviceClass(device_type))
  IN /\ probe = NoProbe
     /\ override \in ProbeOverrides(isG3)
     /\ probe' = [fn |-> "hubLockState", device_type |-> device_type, isG3 |-> isG3,
                  key |-> key, value |-> value, override |-> override,
                  out |-> HubLockState(u, override, isG3)]
     /\ UNCHANGED << intercom, listening, sensors, doorbell, methods, uda, deviceClass, configuredLockDelay, lockDelayInterval, isOnline,
                     hkLockState, g3ReaderLockStateOverride, lockResetTimer, timers,
                     inflight, last >>

\* The words C12 lists, in lower case.
StatedActiveWords ==
  { <<"o","n">>, <<"t","r","u","e">>, <<"u","n","l","o","c","k","e","d">>,
    <<"o","p","e","n">>, <<"a","c","t","i","v","e">> }
StatedInactiveWords ==
  { <<"o","f","f">>, <<"f","a","l","s","e">>, <<"l","o","c","k","e","d">>,
    <<"c","l","o","s","e","d">>, <<"i","n","a","c","t","i","v","e">>,
    <<"s","e","c","u","r","e","d">> }

StatedActiveSpellings == UNION { CaseVariants(w) : w \in StatedActiveWords }
StatedInactiveSpellings == UNION { CaseVariants(w) : w \in StatedInactiveWords }

IsSpellingOf(v, spellings) == v.t = "string" /\ v.v \in spellings

\* The lock state C12 states for the value v found under the selected key.
StatedLockState(present, v, isG3) ==
  LET fallback == IF isG3 THEN SECURED ELSE UNKNOWN
  IN IF ~present THEN fallback
     ELSE IF (v.t = "boolean" /\ v.v)
             \/ (v.t = "number" /\ v.v = 1)
             \/ IsSpellingOf(v, StatedActiveSpellings) THEN UNSECURED
     ELSE IF (v.t = "boolean" /\ ~v.v)
             \/ (v.t = "number" /\ v.v = 0)
             \/ IsSpellingOf(v, StatedInactiveSpellings) THEN SECURED
     ELSE fallback

\* C12: with no override, hubLockState is Unknown (Secured for a G3 reader)
\* when the selected relay key is absent, Unsecured for true, 1 and every
\* spelling of on/true/unlocked/open/active, Secured for false, 0 and every
\* spelling of off/false/locked/closed/inactive/secured, and Unknown (Secured
\* for a G3 reader) for any other value.
C12_CanonicalLockState ==
  (probe.fn = "hubLockState" /\ probe.override = NULL)
    => probe.out =
         StatedLockState(probe.value.t # "undefined"
                           /\ probe.key = LockRelayKey(probe.device_type),
                         probe.value, probe.isG3)

\* A hub read the relay value "oN" as Unsecured.
C12_Witness ==
  /\ probe.fn = "hubLockState"
  /\ probe.override = NULL
  /\ ~probe.isG3
  /\ probe.key = LockRelayKey(probe.device_type)
  /\ probe.value = Str(<<"o","N">>)
  /\ probe.out = UNSECURED

\* C13: on a G3 reader that holds an override, hubLockState reads the
\* override whatever relay value the snapshot carries; a device update clears
\* the override and adopts the state derived from the updated snapshot.
C13_OverridePrecedence ==
  [][ /\ (isG3Reader /\ g3ReaderLockStateOverride # NULL)
          => HubLockState(uda, g3ReaderLockStateOverride, isG3Reader)
               = g3ReaderLockStateOverride
      /\ (isG3Reader /\ last'.op = "access.data.device.update")
          => /\ g3ReaderLockStateOverride' = NULL
             /\ hkLockState' = StatedLockState(LockRelayValue(uda').t # "undefined",
                                               LockRelayValue(uda'), TRUE) ]_vars

\* The auto-reset of a reader has set the override to Secured while the
\* snapshot reports the relay active, and the reader shows Secured.
C13_Witness ==
  /\ isG3Reader
  /\ last.op = "resetLockToDefaultState"
  /\ g3ReaderLockStateOverride = SECURED
  /\ LockRelayValue(uda) = RelayOn
  /\ hkLockState = SECURED

\* C14: when the auto-reset timer of a G3 reader fires, the override and the
\* tracked lock state become Secured, no transport call is issued and no
\* timer is installed, whether the device is online or offline.
C14_ReaderResetIsLocal ==
  [][ (isG3Reader /\ last'.op = "resetLockToDefaultState")
        => /\ g3ReaderLockStateOverride' = SECURED
           /\ hkLockState' = SECURED
           /\ last'.call = "none"
           /\ inflight' = inflight
           /\ last'.scheduled = {}
           /\ timers' \subseteq timers
           /\ lockResetTimer' = Null ]_vars

\* The timer of an offline reader that showed Unsecured has fired.
C14_Witness ==
  /\ isG3Reader
  /\ ~isOnline
  /\ last.op = "resetLockToDefaultState"
  /\ last.was = UNSECURED
  /\ hkLockState = SECURED
  /\ g3ReaderLockStateOverride = SECURED
  /\ timers = {}

\* C15 as stated: once a G3 reader has processed a location-scoped
\* access-granted event for its location, its override is Unsecured and its
\* tracked lock state is Unsecured.
C15_OverrideUnsecured ==
  (isG3Reader /\ last.op = "access.data.location.access_granted")
    => g3ReaderLockStateOverride = UNSECURED /\ hkLockState = UNSECURED

\* C15, amended: a G3 reader that processes a location-scoped access-granted
\* event for its location or door clears its override and shows Unsecured,
\* with the auto-reset scheduled when it has no configured delay and is
\* addressable; a reader leaves Unsecured only when the auto-reset fires, a
\* device update arrives or a lock command has succeeded.
C15_GrantTreatedAsUnlock ==
  [][ /\ (isG3Reader /\ last'.op = "access.data.location.access_granted")
          => /\ g3ReaderLockStateOverride' = NULL
             /\ hkLockState' = UNSECURED
             /\ last'.pub = <<"false">>
             /\ (GetCommandDeviceConfig(uda, TRUE) # Null) => last'.scheduled = {0}
      /\ (isG3Reader /\ hkLockState = UNSECURED /\ hkLockState' # UNSECURED)
          => last'.op \in {"resetLockToDefaultState", "access.data.device.update",
                           "hubLockCommand.resumed"} ]_vars

\* A reader that showed Secured has processed the access-granted event of its
\* location and scheduled its auto-reset.
C15_Witness ==
  /\ isG3Reader
  /\ last.op = "access.data.location.access_granted"
  /\ last.was = SECURED
  /\ hkLockState = UNSECURED
  /\ g3ReaderLockStateOverride = NULL
  /\ last.scheduled = {0}

\* The access-granted events C16 lets through: on a G3 reader, a
\* device-scoped event for the reader's own id or a location-scoped event for
\* its location id or its door's id.
StatedGrantMatch(event, id) ==
  /\ isG3Reader
  /\ \/ event = "access.data.device.access_granted" /\ id = uda.unique_id
     \/ event = "access.data.location.access_granted"
          /\ id \in ({uda.location_id, uda.door_unique_id} \ {NULL})

\* C16: an access-granted event that is not for a G3 reader's own id,
\* location or door leaves the tracked lock state, the override and the
\* pending timer as they were and publishes nothing.
C16_OtherGrantsIgnored ==
  [][ \A event \in {"access.data.device.access_granted",
                    "access.data.location.access_granted"}, id \in EventObjectIds :
        (AccessGrantedEvent(event, id) /\ ~StatedGrantMatch(event, id))
          => /\ hkLockState' = hkLockState
             /\ g3ReaderLockStateOverride' = g3ReaderLockStateOverride
             /\ lockResetTimer' = lockResetTimer
             /\ timers' = timers
             /\ last'.pub = NoPub
             /\ last'.scheduled = {} ]_vars

\* A reader with its auto-reset pending has ignored an access-granted event.
C16_Witness ==
  /\ isG3Reader
  /\ last.op = "eventHandler"
  /\ last.ret = "ignored"
  /\ hkLockState = UNSECURED
  /\ lockResetTimer.t = "timeout"

\* ------------------------------------------------------------ access methods: inputs

\* The extensions discovery is run on: two PIN extensions with a boolean
\* entry, one without, one that names two methods, a hand-wave extension
\* known by its target only whose config has a number and two booleans, a
\* face extension, and one of no method.
ProbeExtensions ==
  { Extension(Str(<<"p","i","n">>), Undefined, Str(<<"u","1">>),
              << [config_key |-> "k1", config_value |-> Bool(TRUE)] >>),
    Extension(Str(<<"P","I","N"," ","C","o","d","e">>), Undefined, Str(<<"u","2">>),
              << [config_key |-> "k2", config_value |-> Bool(FALSE)] >>),
    Extension(Str(<<"p","i","n">>), Undefined, Str(<<"u","3">>),
              << [config_key |-> "k3", config_value |-> Str(<<"x">>)] >>),
    Extension(Str(<<"p","i","n","-","f","a","c","e">>), Undefined, Undefined,
              << [config_key |-> "k4", config_value |-> Bool(TRUE)] >>),
    Extension(Undefined, Str(<<"H","a","n","d"," ","W","a","v","e">>), Undefined,
              << [config_key |-> "mode", config_value |-> Num(1)],
                 [config_key |-> "k5", config_value |-> Bool(TRUE)],
                 [config_key |-> "k5b", config_value |-> Bool(FALSE)] >>),
    Extension(Str(<<"f","a","c","e">>), Undefined, Str(<<"u","6">>),
              << [config_key |-> "k6", config_value |-> Bool(FALSE)] >>),
    Extension(Str(<<"d","o","o","r">>), Undefined, Str(<<"u","7">>),
              << [config_key |-> "k7", config_value |-> Bool(TRUE)] >>) }

MaxExtensions == 3

ProbeExtensionLists ==
  UNION { [1..n -> ProbeExtensions] : n \in 0..MaxExtensions }

\* discoverAccessMethodDefinitions() run on a snapshot with these extensions.
RunDiscovery(extensions) ==
  /\ probe = NoProbe
  /\ probe' = [fn |-> "discoverAccessMethodDefinitions", extensions |-> extensions,
               out |-> DiscoverAccessMethodDefinitions(extensions)]
  /\ UNCHANGED << intercom, listening, sensors, doorbell, methods, uda, deviceClass, configuredLockDelay, lockDelayInterval, isOnline,
                  hkLockState, g3ReaderLockStateOverride, lockResetTimer, timers,
                  inflight, last >>

\* ------------------------------------------------------------ variant classification

\* The variant the class treats a device of this type as: isG3Reader is asked
\* first wherever both are, isMiniVariant next. exactMatches: which of the two
\* definitions of isG3ReaderDeviceClass in access-types.ts is in force.
ClassifyVariant(device_type, exactMatches) ==
  LET normalized == NormalizeDeviceClass(device_type)
  IN IF (IF exactMatches THEN isG3ReaderDeviceClassWithExactMatches(normalized)
         ELSE isG3ReaderDeviceClass(normalized))
     THEN "G3Reader"
     ELSE IF IsMiniVariant(device_type) THEN "MiniOrUltra"
     ELSE "Standard"

\* Spellings of device types with the separators controllers use.
Separated(word, sep) ==
  IF sep = "" THEN word
  ELSE << word[1], word[2], sep, word[3], word[4], sep >> \o SubSeq(word, 5, Len(word))

\* The device types variants are classified for: no type, the empty type, the
\* hub types in their exact and in other spellings, reader types in every
\* letter case and with each separator, and types that only resemble them.
ProbeClassifiedTypes ==
  { Undefined, Null, Str(<<>>), TYPE_UAH, TYPE_MINI, TYPE_ULTRA,
    Str(ToLowerCase(TYPE_MINI.v)), Str(ToLowerCase(TYPE_ULTRA.v)),
    Str(<<"U","A","U","L","T","R","A">>),
    Str(<<"U","A"," ","G","3">>), Str(<<"U","A","-","G","3">>), Str(<<"u","a","g","3">>),
    Str(<<"U","A"," ","G","3"," ","P","r","o">>),
    Str(<<"X","U","A","G","3","B">>), Str(<<"U","A","G","3","8">>),
    Str(<<"U","A","-","G","3","-","B","2">>) }
    \cup { Str(Separated(v, sep)) :
             v \in CaseVariants(<<"u","a","g","3","b">>)
                     \cup CaseVariants(<<"u","a","g","3","r","e","a","d","e","r">>),
             sep \in {"", " ", "-", "_"} }

\* The variant of a device type, worked out once.
RunClassification(device_type, exactMatches) ==
  /\ probe = NoProbe
  /\ probe' = [fn |-> "classifyVariant", device_type |-> device_type,
               exactMatches |-> exactMatches,
               out |-> ClassifyVariant(device_type, exactMatches)]
  /\ UNCHANGED << intercom, listening, sensors, doorbell, methods, uda, deviceClass, configuredLockDelay, lockDelayInterval, isOnline,
                  hkLockState, g3ReaderLockStateOverride, lockResetTimer, timers,
                  inflight, last >>

\* ------------------------------------------------------------ getters: specification

\* The getters and helpers of the class evaluated on their own, once each run,
\* on a hub that has just been constructed.
PureInit ==
  /\ Init
  /\ uda = Device(TYPE_UAH, {"is_hub"}, NULL, NULL, <<>>)
  /\ configuredLockDelay = Undefined

PureNext ==
  \/ /\ probe = NoProbe
     /\ \E device_type \in ProbeDeviceTypes, key \in LockRelayKeys,
           value \in ProbeRelayValues, override \in {NULL, SECURED, UNSECURED} :
          ReadHubLockState(device_type, key, value, override)
  \/ /\ probe = NoProbe
     /\ \E extensions \in ProbeExtensionLists : RunDiscovery(extensions)
  \/ /\ probe = NoProbe
     /\ \E device_type \in ProbeClassifiedTypes, exactMatches \in BOOLEAN :
          RunClassification(device_type, exactMatches)

PureSpec == PureInit /\ [][PureNext]_vars

\* An extension discovery can turn into a definition: it names a method and
\* carries a boolean config entry.
Qualifies(extension) ==
  /\ GetAccessMethodTypeFromExtension(extension) # NoMethod
  /\ FindBooleanConfig(extension.target_config) # Undefined

\* The definition d is taken from extension e.
TakenFrom(d, extension) ==
  /\ FindBooleanConfig(extension.target_config) # Undefined
  /\ d.configKey = FindBooleanConfig(extension.target_config).config_key
  /\ d.state = FindBooleanConfig(extension.target_config).config_value.v
  /\ d.extensionKey = BuildAccessMethodExtensionKey(extension, d.methodType)

\* The first position of a list that satisfies P.
FirstWhere(list, P(_)) ==
  CHOOSE k \in 1..Len(list) : P(list[k]) /\ \A m \in 1..(k - 1) : ~P(list[m])

OnePerMethodType(out) ==
  \A i, j \in 1..Len(out) : i # j => out[i].methodType # out[j].methodType

\* C17 as stated: discovery returns at most one definition per method type,
\* taken from the first extension of the list that matches the method type.
C17_FirstMatchWins ==
  probe.fn = "discoverAccessMethodDefinitions"
    => /\ OnePerMethodType(probe.out)
       /\ \A d \in 1..Len(probe.out) :
            LET Matches(e) == GetAccessMethodTypeFromExtension(e) = probe.out[d].methodType
            IN TakenFrom(probe.out[d],
                         probe.extensions[FirstWhere(probe.extensions, Matches)])

\* C17, amended: discovery returns exactly one definition for every method
\* type that some extension with a boolean config entry matches and none for
\* any other, taken from the first extension of the list that matches the
\* method type and carries a boolean config entry.
C17_FirstQualifyingWins ==
  probe.fn = "discoverAccessMethodDefinitions"
    => /\ OnePerMethodType(probe.out)
       /\ \A k \in 1..Len(probe.extensions) :
            Qualifies(probe.extensions[k])
              => \E d \in 1..Len(probe.out) :
                   probe.out[d].methodType
                     = GetAccessMethodTypeFromExtension(probe.extensions[k])
       /\ \A d \in 1..Len(probe.out) :
            LET QualifiesFor(e) ==
                  /\ Qualifies(e)
                  /\ GetAccessMethodTypeFromExtension(e) = probe.out[d].methodType
            IN /\ \E k \in 1..Len(probe.extensions) : QualifiesFor(probe.extensions[k])
               /\ TakenFrom(probe.out[d],
                            probe.extensions[FirstWhere(probe.extensions, QualifiesFor)])

\* Two PIN extensions with a boolean entry and different keys were listed,
\* and the one definition carries the key of the first.
C17_Witness ==
  /\ probe.fn = "discoverAccessMethodDefinitions"
  /\ Len(probe.extensions) = 2
  /\ \A k \in 1..2 :
       /\ Qualifies(probe.extensions[k])
       /\ GetAccessMethodTypeFromExtension(probe.extensions[k]) = <<"p","i","n">>
  /\ probe.extensions[1].unique_id # probe.extensions[2].unique_id
  /\ Len(probe.out) = 1
  /\ probe.out[1].extensionKey = probe.extensions[1].unique_id

\* Every reordering of a list.
Reorderings(list) ==
  LET n == Len(list)
  IN { [i \in 1..n |-> list[f[i]]] :
         f \in { g \in [1..n -> 1..n] : \A i, j \in 1..n : i # j => g[i] # g[j] } }

DefinitionSet(definitions) == { definitions[i] : i \in 1..Len(definitions) }

StableUnderReordering(extensions, out) ==
  \A reordered \in Reorderings(extensions) :
    DefinitionSet(DiscoverAccessMethodDefinitions(reordered)) = DefinitionSet(out)

\* C18 as stated: discovery on any reordering of the extension list yields
\* the same set of definitions, with the same extensionKey, configKey and
\* state for each method type.
C18_StableUnderReordering ==
  probe.fn = "discoverAccessMethodDefinitions"
    => StableUnderReordering(probe.extensions, probe.out)

\* No two extensions of the list that carry a boolean config entry match the
\* same method type.
OneQualifyingPerMethodType(extensions) ==
  \A i, j \in 1..Len(extensions) :
    (i # j /\ Qualifies(extensions[i]) /\ Qualifies(extensions[j]))
      => GetAccessMethodTypeFromExtension(extensions[i])
           # GetAccessMethodTypeFromExtension(extensions[j])

\* C18, amended: when no two extensions with a boolean config entry match the
\* same method type, discovery on any reordering of the list yields the same
\* set of definitions.
C18_StableWithoutDuplicates ==
  (probe.fn = "discoverAccessMethodDefinitions"
     /\ OneQualifyingPerMethodType(probe.extensions))
    => StableUnderReordering(probe.extensions, probe.out)

\* A PIN extension without a boolean entry was listed before one with a
\* boolean entry, next to an extension of another method: two definitions.
C18_Witness ==
  /\ probe.fn = "discoverAccessMethodDefinitions"
  /\ OneQualifyingPerMethodType(probe.extensions)
  /\ Len(probe.extensions) = 3
  /\ ~Qualifies(probe.extensions[1])
  /\ GetAccessMethodTypeFromExtension(probe.extensions[1]) = <<"p","i","n">>
  /\ Qualifies(probe.extensions[2])
  /\ GetAccessMethodTypeFromExtension(probe.extensions[2]) = <<"p","i","n">>
  /\ Len(probe.out) = 2

\* The type as C19 normalises it: upper-cased, letters and digits only.
StatedNormalized(device_type) ==
  IF device_type.t # "string" THEN <<>>
  ELSE SelectSeq([i \in 1..Len(device_type.v) |-> UpperChar(device_type.v[i])],
                 LAMBDA c : c \in Digits \/ \E n \in 1..26 : UpperLetters[n] = c)

StatedReaderPrefix(normalized) ==
  \/ StartsWith(normalized, <<"U","A","G","3","R","E","A","D","E","R">>)
  \/ StartsWith(normalized, <<"U","A","G","3","B">>)

StatedVariant(device_type, isReader) ==
  IF isReader THEN "G3Reader"
  ELSE IF device_type \in { Str(<<"U","A","-","H","u","b","-","D","o","o","r","-","M","i","n","i">>),
                            Str(<<"U","A","-","U","L","T","R","A">>) }
       THEN "MiniOrUltra"
  ELSE "Standard"

SensorDeviceTypes == { TYPE_UAH, TYPE_MINI, TYPE_ULTRA }
SensorNames == { "dps", "rel", "ren", "rex" }

\* Both wires on, one wire on, no wiring entry at all.
WiringShapes == { "both", "neg", "none" }

\* The values of the state entry (Undefined: no entry): words of both switch
\* arms in several spellings, a word of neither, a boolean.
SensorValues ==
  { Undefined, RelayOn, RelayOff, Str(<<"O","N">>), Str(<<"C","l","o","s","e","d">>),
    Str(<<"1">>), Str(<<"o","p","e","n">>), Str(<<"a","j","a","r">>), Bool(TRUE) }

\* The wiring entries a hub of this type sends for the sensor.
SensorWiringKeys(device_type, sensor) ==
  IF sensor = "dps"
  THEN IF IsMiniVariant(device_type)
       THEN <<"wiring_state_d1-dps-neg", "wiring_state_d1-dps-pos">>
       ELSE <<"wiring_state_dps-neg", "wiring_state_dps-pos">>
  ELSE GetDryContactWiringKeys(device_type, sensor)

\* The state entry a hub of this type sends for the sensor.
SensorStateKey(device_type, sensor) ==
  IF sensor = "dps"
  THEN IF IsMiniVariant(device_type) THEN "input_d1_dps" ELSE "input_state_dps"
  ELSE GetDryContactStateKey(device_type, sensor)

SensorConfigs(device_type, sensor, wiring, value) ==
  LET wires == SensorWiringKeys(device_type, sensor)
      wiringEntries ==
        CASE wiring = "both" -> << [key |-> wires[1], value |-> RelayOn],
                                   [key |-> wires[2], value |-> RelayOn] >>
          [] wiring = "neg"  -> << [key |-> wires[1], value |-> RelayOn],
                                   [key |-> wires[2], value |-> RelayOff] >>
          [] wiring = "none" -> << >>
      stateEntries ==
        IF value.t = "undefined" THEN << >>
        ELSE << [key |-> SensorStateKey(device_type, sensor), value |-> value] >>
  IN wiringEntries \o stateEntries

\* configureHints: the one sensor whose entries the snapshot carries is enabled
\* (a dry contact needs its state entry to be there, hasDryContactHardware).
SensorHints(u, sensor) ==
  [ hasDps |-> sensor = "dps",
    rel |-> sensor = "rel" /\ HasDryContactHardware(u, "rel"),
    ren |-> sensor = "ren" /\ HasDryContactHardware(u, "ren"),
    rex |-> sensor = "rex" /\ HasDryContactHardware(u, "rex") ]

SensorInit ==
  /\ \E device_type \in SensorDeviceTypes, sensor \in SensorNames,
        wiring \in WiringShapes, value \in SensorValues :
       /\ uda = Device(device_type, {"is_hub"}, NULL, NULL,
                       SensorConfigs(device_type, sensor, wiring, value))
       /\ configuredLockDelay = Undefined
       /\ Constructed(SensorHints(uda, sensor))

\* The sensors the device was configured with.
EnabledSensors ==
  { sensor \in SensorNames :
      IF sensor = "dps" THEN sensors.hints.hasDps ELSE sensors.hints[sensor] }

\* An update that replaces the entries of an enabled sensor.
SensorUpdateEvent(sensor, wiring, value) ==
  /\ sensor \in EnabledSensors
  /\ HandleDeviceUpdate([uda EXCEPT !.configs =
                           SensorConfigs(uda.device_type, sensor, wiring, value)])

SensorNext ==
  \E sensor \in SensorNames, wiring \in WiringShapes, value \in SensorValues :
    SensorUpdateEvent(sensor, wiring, value)

SensorSpec == SensorInit /\ [][SensorNext]_vars

\* ------------------------------------------------------------ C20

\* The wiring keys of a sensor: the pair isDpsWired tests on a Mini and on a
\* UAH (none on other devices), the pair of the dry contact's definition.
StatedWiringKeys(device_type, sensor) ==
  IF sensor = "dps"
  THEN CASE device_type = TYPE_MINI ->
              <<"wiring_state_d1-dps-neg", "wiring_state_d1-dps-pos">>
         [] device_type = TYPE_UAH ->
              <<"wiring_state_dps-neg", "wiring_state_dps-pos">>
         [] OTHER -> << >>
  ELSE GetDryContactWiringKeys(device_type, sensor)

\* Not all of the sensor's wiring keys read "on".
StatedUnwired(u, sensor) ==
  \E i \in 1..Len(StatedWiringKeys(u.device_type, sensor)) :
    ~SomeConfigIsOn(u.configs, StatedWiringKeys(u.device_type, sensor)[i])

CanonicalSensorState(u, sensor) ==
  IF sensor = "dps" THEN HubDpsState(u) ELSE GetDryContactState(u, sensor)

TrackedSensorState(sensor) ==
  IF sensor = "dps" THEN sensors.hkDpsState ELSE sensors.dryContactStates[sensor]

PublishedFor(sensor) ==
  \E i \in 1..Len(sensors.pub) : sensors.pub[i][1] = sensor

\* The sensor reads Detected, is tracked as Detected, and the latest update
\* published nothing for it.
SilentAndDetected(sensor) ==
  /\ CanonicalSensorState(uda, sensor) = CONTACT_DETECTED
  /\ TrackedSensorState(sensor) = CONTACT_DETECTED
  /\ ~PublishedFor(sensor)

\* C20, as stated: for the door-position sensor and each dry contact the
\* device has, while not all of its wiring keys read "on" its canonical state
\* is Detected whatever its state key holds, and a device update publishes
\* nothing for it.
C20_UnwiredSensorsSilent ==
  \A sensor \in EnabledSensors :
    StatedUnwired(uda, sensor) => SilentAndDetected(sensor)

\* C20, amended: the same for every sensor but the REL contact of a Mini or
\* Ultra, which isDryContactWired takes as wired whatever its wiring keys
\* read: its state follows its state key and its changes are published.
C20_UnwiredExceptMiniRel ==
  \A sensor \in EnabledSensors :
    (StatedUnwired(uda, sensor) /\ ~(IsMiniVariant(uda.device_type) /\ sensor = "rel"))
      => SilentAndDetected(sensor)

\* An update took the wiring of the REN contact of a UAH away while its state
\* key reads "off": the tracked state changed to Detected, nothing published.
C20_Witness ==
  /\ last.op = "access.data.device.update"
  /\ uda.device_type = TYPE_UAH
  /\ StatedUnwired(uda, "ren")
  /\ FindConfigValue(uda.configs, "input_state_ren") = RelayOff
  /\ "ren" \in sensors.changed
  /\ sensors.dryContactStates["ren"] = CONTACT_DETECTED
  /\ sensors.pub = NoSensorPub

\* ------------------------------------------------------------ C21

TargetState(isLocking) == IF isLocking THEN SECURED ELSE UNSECURED

\* The timer the handle refers to is pending and carries this attempt.
HandleTimerHasAttempt(ts, handle, attempt) ==
  /\ handle.t = "timeout"
  /\ \E tm \in ts : tm.id = handle.id /\ tm.attempt = attempt

\* C21: when the transport call of hubLockCommand succeeds, the tracked lock
\* state becomes the command's target on every variant, the override of a G3
\* reader becomes the same target, and an auto-reset (attempt 0) is scheduled
\* exactly when the command was an unlock and no delay interval is set.
C21_SuccessfulCommandApplies ==
  [][ (last'.op = "hubLockCommand.resumed" /\ last'.ret = "true") =>
        \E c \in Awaited :
          /\ inflight' = Answer(c)
          /\ c.kind = "command"
          /\ hkLockState' = TargetState(c.isLocking)
          /\ IF isG3Reader
             THEN g3ReaderLockStateOverride' = TargetState(c.isLocking)
             ELSE g3ReaderLockStateOverride' = g3ReaderLockStateOverride
          /\ IF ~c.isLocking /\ lockDelayInterval.t = "undefined"
             THEN /\ last'.scheduled = {0}
                  /\ HandleTimerHasAttempt(timers', lockResetTimer', 0)
             ELSE /\ last'.scheduled = {}
                  /\ timers' = timers
                  /\ lockResetTimer' = lockResetTimer ]_vars

\* A default unlock of a G3 reader succeeded: state and override Unsecured,
\* the auto-reset pending.
C21_Witness ==
  /\ last.op = "hubLockCommand.resumed"
  /\ last.ret = "true"
  /\ isG3Reader
  /\ last.was = SECURED
  /\ hkLockState = UNSECURED
  /\ g3ReaderLockStateOverride = UNSECURED
  /\ last.scheduled = {0}
  /\ HandleTimerHasAttempt(timers, lockResetTimer, 0)

\* ------------------------------------------------------------ C22

\* C22: on a device that is no G3 reader and has a delay interval set, no
\* auto-reset timer is ever pending and no automatic relock is ever issued.
C22_NoResetWithInterval ==
  (~isG3Reader /\ lockDelayInterval.t = "number") =>
    /\ timers = {}
    /\ lockResetTimer = Null
    /\ \A c \in Awaited : c.kind # "reset"
    /\ last.op \notin {"resetLockToDefaultState", "resetLockToDefaultState.resumed"}
    /\ last.scheduled = {}

\* A hub with a delay interval of two minutes went from Secured to Unsecured
\* by a device update, with an unlock command still awaited.
C22_Witness ==
  /\ ~isG3Reader
  /\ lockDelayInterval = Num(2)
  /\ last.op = "access.data.device.update"
  /\ last.was = SECURED
  /\ hkLockState = UNSECURED
  /\ \E c \in Awaited : c.kind = "command" /\ ~c.isLocking
  /\ timers = {}

\* ------------------------------------------------------------ C23

\* The step is a lock command that got past the offline and addressing checks
\* of hubLockCommand: it issued the transport call of a lock, or it returned
\* false from lockG3Reader before any call (only a lock does).
LockCommandPastChecks ==
  /\ last'.op = "hubLockCommand"
  /\ isOnline
  /\ GetCommandDeviceConfig(uda, isG3Reader).t # "null"
  /\ \/ last'.ret = "false"
     \/ \E c \in BagToSet(inflight') : c.isLocking /\ inflight' = Issue(c)

\* C23: a lock command that passes the offline and addressing checks cancels
\* the pending auto-reset timer before its transport call is issued: from
\* that step on no timer that was pending is left to fire.
C23_LockCancelsPendingReset ==
  [][ LockCommandPastChecks =>
        /\ timers' = {}
        /\ lockResetTimer' = Null
        /\ last'.cleared = (timers # {}) ]_vars

\* A lock command cancelled the pending timer and awaits its transport call.
C23_Witness ==
  /\ last.op = "hubLockCommand"
  /\ last.ret = "pending"
  /\ last.cleared
  /\ \E c \in Awaited : c.kind = "command" /\ c.isLocking
  /\ timers = {}
  /\ lockResetTimer = Null

\* ------------------------------------------------------------ C24

\* C24: on a device update that changes the tracked lock state, a new state
\* of Secured cancels the pending auto-reset timer, and an auto-reset is
\* started only if the new state is Unsecured and no delay interval is set
\* (a change to Unknown starts none).
C24_UpdateSchedulesOnUnsecuredOnly ==
  [][ (last'.op = "access.data.device.update" /\ hkLockState' # hkLockState) =>
        /\ hkLockState' = SECURED =>
             (timers' = {} /\ lockResetTimer' = Null /\ last'.scheduled = {})
        /\ last'.scheduled # {} =>
             (hkLockState' = UNSECURED /\ lockDelayInterval.t = "undefined") ]_vars

\* ------------------------------------------------------------ C25

\* C25: once a device update whose derived lock state is Secured has been
\* processed, no auto-reset timer is pending, also when the tracked lock
\* state was Secured before the update.
C25_SecuredUpdateLeavesNoTimer ==
  (last.op = "access.data.device.update" /\ hkLockState = SECURED) =>
    (timers = {} /\ lockResetTimer = Null)

\* ------------------------------------------------------------ C26

\* C26: when an auto-reset relock succeeds on a device that is no G3 reader,
\* the tracked lock state is Secured and no auto-reset timer is outstanding,
\* a timer scheduled by an unlock processed while the relock was awaited
\* included.
C26_RelockLeavesNoTimer ==
  (last.op = "resetLockToDefaultState.resumed" /\ last.ret = "true" /\ ~isG3Reader) =>
    /\ hkLockState = SECURED
    /\ timers = {}
    /\ lockResetTimer = Null

\* ------------------------------------------------------------ C27

RemoteUnlockEvents ==
  {"access.data.device.remote_unlock", "access.data.location.remote_unlock"}

\* C27: a remote-unlock event (device or location) clears the override of a
\* reader, sets the tracked lock state to Unsecured, and schedules an
\* auto-reset with attempt 0 exactly when no delay interval is set and a
\* command device can be resolved; the timer pending before is cancelled and
\* the new one is the only one pending.
C27_RemoteUnlock ==
  [][ last'.op \in RemoteUnlockEvents =>
        /\ isG3Reader => g3ReaderLockStateOverride' = NULL
        /\ hkLockState' = UNSECURED
        /\ IF lockDelayInterval.t = "undefined"
              /\ GetCommandDeviceConfig(uda, isG3Reader).t # "null"
           THEN /\ last'.scheduled = {0}
                /\ HandleTimerHasAttempt(timers', lockResetTimer', 0)
                /\ Cardinality(timers') = 1
                /\ last'.cleared = (timers # {})
           ELSE /\ last'.scheduled = {}
                /\ timers' = timers
                /\ lockResetTimer' = lockResetTimer ]_vars

\* A location-scoped remote unlock on a reader showing Secured replaced the
\* timer that was pending by a new attempt-0 timer.
C27_Witness ==
  /\ last.op = "access.data.location.remote_unlock"
  /\ last.cleared
  /\ last.scheduled = {0}
  /\ last.was = SECURED
  /\ hkLockState = UNSECURED
  /\ isG3Reader
  /\ g3ReaderLockStateOverride = NULL
  /\ HandleTimerHasAttempt(timers, lockResetTimer, 0)

\* ------------------------------------------------------------ C28

\* A command of hubLockCommand awaits its transport call.
CommandAwaited == \E c \in Awaited : c.kind = "command"

\* C28: while a command awaits its transport call the events of the device
\* are still handled (here: a remote unlock can be), and a command that then
\* succeeds sets the tracked lock state to its own target whatever the events
\* in between made of it; a default unlock completing over a state of Secured
\* leaves Unsecured with an auto-reset scheduled.
C28_EventsInterleaveCommands ==
  /\ [](CommandAwaited /\ TimerRoom =>
          \A event \in RemoteUnlockEvents : ENABLED RemoteUnlockEvent(event))
  /\ [][ (last'.op = "hubLockCommand.resumed" /\ last'.ret = "true") =>
           \E c \in Awaited :
             /\ inflight' = Answer(c)
             /\ hkLockState' = TargetState(c.isLocking)
             /\ (c.isDefaultUnlock /\ hkLockState = SECURED) =>
                  (hkLockState' = UNSECURED /\ last'.scheduled = {0}) ]_vars

\* An unlock command of a hub completed over a state of Secured that the
\* snapshot derives: the tracked state is Unsecured, the auto-reset pending.
C28_Witness ==
  /\ last.op = "hubLockCommand.resumed"
  /\ last.ret = "true"
  /\ ~isG3Reader
  /\ last.was = SECURED
  /\ HubLockState(uda, NULL, FALSE) = SECURED
  /\ hkLockState = UNSECURED
  /\ last.scheduled = {0}

\* ------------------------------------------------------------ doorbell: specification

RingEvents == {"access.remote_view", "access.remote_call"}
ChangeEvents == {"access.remote_view.change", "access.remote_call.change"}

\* The device ids and request ids the doorbell events of the model carry.
RingTargetIds == {"dev-1", "other"}
RequestIds == {"req-1", "req-2"}

\* A cancellation that clears the ring whatever request it names.
CancelsRing_AnyRequest(requestId, remote_call_request_id) == TRUE

\* The change events pass only if the stored request id is the event's:
\* if(this.doorbellRingRequestId !== remote_call_request_id) break
CancelsRing(requestId, remote_call_request_id) == requestId = remote_call_request_id

\* The steps of this specification leave everything but the doorbell alone.
DoorbellOnly ==
  UNCHANGED << listening, probe, sensors, methods, uda, deviceClass, configuredLockDelay,
               lockDelayInterval, isOnline, hkLockState, g3ReaderLockStateOverride,
               lockResetTimer, timers, inflight >>

\* The data of a ring event and of a change event, kept in doorbell.packet
\* for the latest doorbell event handled.
RingPacket(connected_uah_id, device_id, event_object_id, request_id) ==
  [ connected_uah_id |-> connected_uah_id, device_id |-> device_id,
    event_object_id |-> event_object_id, request_id |-> request_id ]
ChangePacket(remote_call_request_id) ==
  [ remote_call_request_id |-> remote_call_request_id ]

\* eventHandler: access.remote_view, access.remote_call
DoorbellRingEvent(event, connected_uah_id, device_id, event_object_id, request_id) ==
  LET packet == RingPacket(connected_uah_id, device_id, event_object_id, request_id)
  IN
  /\ event \in RingEvents
  /\ IF IsDoorbellEventForDevice(uda, connected_uah_id, device_id, event_object_id)
     THEN /\ doorbell' = [requestId |-> request_id, press |-> TRUE, pub |-> <<"true">>,
                          packet |-> packet]
          /\ last' = Report(event, "none", "none", "none", NoPub, TimerState)
     ELSE /\ doorbell' = [doorbell EXCEPT !.press = FALSE, !.pub = <<>>,
                                          !.packet = packet]
          /\ last' = Report(event, "ignored", "none", "none", NoPub, TimerState)
  /\ DoorbellOnly

\* eventHandler: access.remote_view.change, access.remote_call.change
DoorbellChangeEvent(event, remote_call_request_id) ==
  LET packet == ChangePacket(remote_call_request_id)
  IN
  /\ event \in ChangeEvents
  /\ IF CancelsRing(doorbell.requestId, remote_call_request_id)
     THEN /\ doorbell' = [requestId |-> NULL, press |-> FALSE, pub |-> <<"false">>,
                          packet |-> packet]
          /\ last' = Report(event, "none", "none", "none", NoPub, TimerState)
     ELSE /\ doorbell' = [doorbell EXCEPT !.press = FALSE, !.pub = <<>>,
                                          !.packet = packet]
          /\ last' = Report(event, "ignored", "none", "none", NoPub, TimerState)
  /\ DoorbellOnly

\* Hubs and a reader, with and without the doorbell capability.
DoorbellInit ==
  /\ \E device_type \in {TYPE_UAH, TYPE_MINI, TYPE_ULTRA, TYPE_G3_READER},
        capabilities \in {{"is_hub", "door_bell"}, {"is_hub"}} :
       uda = Device(device_type, capabilities, NULL, NULL, <<>>)
  /\ configuredLockDelay = Undefined
  /\ Constructed(NoSensorHints)

DoorbellNext ==
  \/ \E event \in RingEvents, connected_uah_id \in RingTargetIds,
        device_id \in RingTargetIds, event_object_id \in RingTargetIds,
        request_id \in RequestIds :
       /\ DoorbellRingEvent(event, connected_uah_id, device_id, event_object_id, request_id)
       /\ UNCHANGED intercom
  \/ \E event \in ChangeEvents, remote_call_request_id \in RequestIds :
       /\ DoorbellChangeEvent(event, remote_call_request_id)
       /\ UNCHANGED intercom

DoorbellSpec == DoorbellInit /\ [][DoorbellNext]_vars

\* ------------------------------------------------------------ C29

\* A ring is pending: doorbellRingRequestId !== null.
RingPending(d) == d.requestId # NULL

\* The ring event is addressed to the device.
RingAddressed(packet, u) ==
  u.unique_id \in {packet.connected_uah_id, packet.device_id, packet.event_object_id}

\* The step left the pending ring as it was and emitted nothing.
DoorbellUntouched ==
  /\ doorbell'.requestId = doorbell.requestId
  /\ ~doorbell'.press
  /\ doorbell'.pub = <<>>

\* C29: a ring event (remote view, remote call) addressed to a device with
\* the doorbell capability stores the event's request id as pending and emits
\* one ring notification; a change event clears the pending ring and emits
\* the cleared notification only if its request id is the stored one. A ring
\* event for another device or on a device without the capability, and a
\* cancellation naming another request, leave the pending ring unchanged and
\* emit nothing.
C29_DoorbellRingTracking ==
  [][ /\ last'.op \in RingEvents =>
           IF RingAddressed(doorbell'.packet, uda) /\ "door_bell" \in uda.capabilities
           THEN /\ doorbell'.requestId = doorbell'.packet.request_id
                /\ RingPending(doorbell')
                /\ doorbell'.press
                /\ doorbell'.pub = <<"true">>
           ELSE DoorbellUntouched
      /\ last'.op \in ChangeEvents =>
           IF RingPending(doorbell)
              /\ doorbell'.packet.remote_call_request_id = doorbell.requestId
           THEN /\ ~RingPending(doorbell')
                /\ doorbell'.pub = <<"false">>
           ELSE DoorbellUntouched ]_vars

\* The pending ring of request req-1 was cancelled by its change event.
C29_Witness ==
  /\ last.op \in ChangeEvents
  /\ last.ret = "none"
  /\ doorbell.packet = ChangePacket("req-1")
  /\ doorbell.requestId = NULL
  /\ doorbell.pub = <<"false">>

\* ------------------------------------------------------------ access-method switches: specification

\* The extensions of the snapshots of this specification: two PIN extensions
\* with different keys and states, a face extension, one of no method.
MethodExtensions ==
  { Extension(Str(<<"p","i","n">>), Undefined, Str(<<"u","1">>),
              << [config_key |-> "k1", config_value |-> Bool(TRUE)] >>),
    Extension(Str(<<"P","I","N"," ","C","o","d","e">>), Undefined, Str(<<"u","2">>),
              << [config_key |-> "k2", config_value |-> Bool(FALSE)] >>),
    Extension(Str(<<"f","a","c","e">>), Undefined, Str(<<"u","6">>),
              << [config_key |-> "k6", config_value |-> Bool(FALSE)] >>),
    Extension(Str(<<"d","o","o","r">>), Undefined, Str(<<"u","7">>),
              << [config_key |-> "k7", config_value |-> Bool(TRUE)] >>) }

MaxMethodExtensions == 2

MethodExtensionLists ==
  UNION { [1..n -> MethodExtensions] : n \in 0..MaxMethodExtensions }

\* A hub whose snapshot carries a list of extensions.
AccessMethodInit ==
  /\ \E extensions \in MethodExtensionLists :
       uda = [Device(TYPE_UAH, {"is_hub"}, NULL, NULL, <<>>)
                EXCEPT !.extensions = extensions]
  /\ configuredLockDelay = Undefined
  /\ Constructed(NoSensorHints)

\* An update that replaces the extensions of the snapshot.
ExtensionsUpdateEvent(extensions) ==
  HandleDeviceUpdate([uda EXCEPT !.extensions = extensions])

\* The switch of a method type is read: its onGet handler answers, and the
\* answer is the value the switch shows from then on.
AccessMethodGet(methodType) ==
  /\ methods.services[methodType] # Undefined
  /\ methods' = [methods EXCEPT !.services[methodType].On =
                                   AccessMethodOnGet(methods, methodType),
                                 !.logged = {}]
  /\ last' = Report("accessMethod.onGet",
                    IF AccessMethodOnGet(methods, methodType) THEN "true" ELSE "false",
                    "none", "none", NoPub, TimerState)
  /\ UNCHANGED << intercom, listening, probe, sensors, doorbell, uda, deviceClass, configuredLockDelay,
                  lockDelayInterval, isOnline, hkLockState, g3ReaderLockStateOverride,
                  lockResetTimer, timers, inflight >>

AccessMethodNext ==
  \/ \E extensions \in MethodExtensionLists : ExtensionsUpdateEvent(extensions)
  \/ \E methodType \in AccessMethodTypes : AccessMethodGet(methodType)

AccessMethodSpec == AccessMethodInit /\ [][AccessMethodNext]_vars

\* ------------------------------------------------------------ C30

\* The definition discovery yields for the method type on these extensions,
\* Undefined if it yields none.
DefinitionOf(definitions, methodType) ==
  IF \E i \in 1..Len(definitions) : definitions[i].methodType = methodType
  THEN definitions[CHOOSE i \in 1..Len(definitions) :
                     definitions[i].methodType = methodType]
  ELSE Undefined

DiscoveredDefinition(extensions, methodType) ==
  DefinitionOf(DiscoverAccessMethodDefinitions(extensions), methodType)

\* C30: when a method type known before is no longer discovered on a device
\* update (the extension list may have become empty), its switch is forced
\* off and its state and config entries are deleted, and the switch stays off
\* while the type is unknown; when the type is discovered again on a later
\* update, its switch is created anew from the discovered definition: state,
\* config entry, value and handlers are those of that definition, none is
\* taken over from the earlier one.
C30_DroppedMethodsAreRecreated ==
  /\ [][ last'.op = "access.data.device.update" =>
           \A methodType \in AccessMethodTypes :
             LET discovered == DiscoveredDefinition(uda'.extensions, methodType)
             IN /\ (methods.states[methodType] # Undefined /\ discovered = Undefined) =>
                     /\ methods'.states[methodType] = Undefined
                     /\ methods'.configs[methodType] = Undefined
                     /\ methods'.services[methodType] # Undefined =>
                          ~methods'.services[methodType].On
                /\ (methods.states[methodType] = Undefined /\ discovered # Undefined) =>
                     /\ methods'.states[methodType] = Bool(discovered.state)
                     /\ methods'.configs[methodType] = discovered
                     /\ methods'.services[methodType] =
                          [t |-> "service", On |-> discovered.state,
                           definition |-> discovered] ]_vars
  /\ [](\A methodType \in AccessMethodTypes :
          (methods.states[methodType] = Undefined
             /\ methods.services[methodType] # Undefined) =>
            ~methods.services[methodType].On)

\* ------------------------------------------------------------ C31

\* C31: after a device update has been processed, the tracked access-method
\* types are exactly the types discovered on the extensions of the new
\* snapshot, and each tracked state is the discovered boolean; the switch of a
\* type that was tracked before and is still discovered is written and its
\* change logged exactly when the discovered boolean differs from the state
\* tracked before, and is left as it was otherwise.
C31_RefreshTracksDiscovery ==
  [][ last'.op = "access.data.device.update" =>
        \A methodType \in AccessMethodTypes :
          LET discovered == DiscoveredDefinition(uda'.extensions, methodType)
              previousState == methods.states[methodType]
          IN /\ (methods'.states[methodType] # Undefined) <=> (discovered # Undefined)
             /\ discovered # Undefined =>
                  methods'.states[methodType] = Bool(discovered.state)
             /\ (previousState # Undefined /\ discovered # Undefined) =>
                  /\ (methodType \in methods'.logged) <=>
                       (previousState # Bool(discovered.state))
                  /\ previousState = Bool(discovered.state) =>
                       methods'.services[methodType] = methods.services[methodType] ]_vars

\* An update has changed the state of one tracked switch, written and logged
\* it, and has left another tracked switch alone.
C31_Witness ==
  /\ last.op = "access.data.device.update"
  /\ \E changed, kept \in AccessMethodTypes :
       /\ changed \in methods.logged
       /\ kept \notin methods.logged
       /\ methods.states[kept] # Undefined
       /\ methods.services[kept].On = methods.states[kept].v

\* ------------------------------------------------------------ C32

\* The words the claim lists for Detected.
StatedClosedWords ==
  { <<"1">>, <<"a","c","t","i","v","e">>, <<"c","l","o","s","e","d">>, <<"o","n">>,
    <<"t","r","u","e">> }

\* a and b are the same word up to the case of their letters.
EqualsIgnoringCase(a, b) ==
  /\ Len(a) = Len(b)
  /\ \A i \in 1..Len(a) : LowerChar(a[i]) = LowerChar(b[i])

\* The channel is wired as the claim states it: all of its wiring keys read
\* "on", or it is the REL channel of a Mini or Ultra.
StatedWired(u, sensorType) ==
  \/ IsMiniVariant(u.device_type) /\ sensorType = "rel"
  \/ ~StatedUnwired(u, sensorType)

\* The state the claim gives a wired channel for the value of its state key.
StatedContactState(value) ==
  IF value.t = "string" /\ \E word \in StatedClosedWords : EqualsIgnoringCase(value.v, word)
  THEN CONTACT_DETECTED ELSE CONTACT_NOT_DETECTED

\* C32: a dry contact is wired exactly when all of its wiring keys read "on"
\* or it is the REL channel of a Mini or Ultra; the state of a wired dry
\* contact, as computed and as tracked, is Detected when its state key holds a
\* string that is one of 1, active, closed, on, true up to case, and
\* NotDetected for every other value, a missing key included.
C32_DryContactNormalization ==
  \A sensorType \in EnabledSensors \ {"dps"} :
    /\ IsDryContactWired(uda, sensorType) <=> StatedWired(uda, sensorType)
    /\ StatedWired(uda, sensorType) =>
         LET value == FindConfigValue(uda.configs,
                                      GetDryContactStateKey(uda.device_type, sensorType))
         IN /\ GetDryContactState(uda, sensorType) = StatedContactState(value)
            /\ sensors.dryContactStates[sensorType] = StatedContactState(value)

\* An update left the REL channel of a Mini without wiring entries and with
\* the state "Closed": the channel went from NotDetected to Detected.
C32_Witness ==
  /\ last.op = "access.data.device.update"
  /\ uda.device_type = TYPE_MINI
  /\ "rel" \in EnabledSensors
  /\ StatedUnwired(uda, "rel")
  /\ FindConfigValue(uda.configs, "input_d1_rel") = Str(<<"C","l","o","s","e","d">>)
  /\ "rel" \in sensors.changed
  /\ sensors.dryContactStates["rel"] = CONTACT_DETECTED

\* ------------------------------------------------------------ C33

C34_OverrideOnlyOnReader ==
  /\ g3ReaderLockStateOverride # NULL =>
       /\ isG3Reader
       /\ hkLockState = g3ReaderLockStateOverride
  /\ ~isG3Reader => g3ReaderLockStateOverride = NULL

\* An unlock command has succeeded on a G3 reader whose relay entry reads
\* locked: the override and the tracked state are both Unsecured.
C34_Witness ==
  /\ isG3Reader
  /\ last.op = "hubLockCommand.resumed"
  /\ last.ret = "true"
  /\ g3ReaderLockStateOverride = UNSECURED
  /\ HubLockState(uda, NULL, isG3Reader) = SECURED

\* ------------------------------------------------------------ C35

\* C35: when a relock call of an auto-reset attempt fails while a timer of
\* attempt 0, scheduled while the call was awaited, is pending, the failed
\* attempt leaves that timer in place, with its attempt 0 and its device: it
\* neither cancels it nor puts a timer of its own next attempt in its place.
C35_FreshTimerSurvivesOldRetry ==
  [][ ( /\ last'.op = "resetLockToDefaultState.resumed"
        /\ last'.ret = "false"
        /\ \E tm \in timers : tm.attempt = 0 /\ lockResetTimer = Timeout(tm.id) )
      => /\ timers' = timers
         /\ lockResetTimer' = lockResetTimer ]_vars

\* ------------------------------------------------------------ C36

\* The step answers the transport call of a lock command.
LockCommandAnswered ==
  /\ last'.op = "hubLockCommand.resumed"
  /\ \E c \in Awaited : c.kind = "command" /\ c.isLocking /\ inflight' = Answer(c)

\* The step is a command that returns false without a transport call because
\* the device is offline or because the command has no address.
CommandRejected ==
  /\ last'.op = "hubLockCommand"
  /\ last'.ret = "false"
  /\ last'.err \in {"Offline", "AddressingFailure"}

\* The step is a command that returns false at the offline check or at the
\* device check of hubLockCommand.
CommandRejectedAtChecks ==
  /\ last'.op = "hubLockCommand"
  /\ ~isOnline \/ GetCommandDeviceConfig(uda, isG3Reader).t = "null"

\* What the claim says of a lock command that reaches its transport call: the
\* pending timer is cancelled when the call is issued, and a failing answer
\* returns false, restores no timer and leaves the tracked state alone.
FailedLockKeepsTimerCancelled ==
  /\ (last'.op = "hubLockCommand" /\ last'.ret = "pending"
        /\ \E c \in BagToSet(inflight') : c.isLocking /\ inflight' = Issue(c)) =>
       /\ timers' = {}
       /\ lockResetTimer' = Null
  /\ (LockCommandAnswered /\ last'.ret # "true") =>
       /\ timers' = timers
       /\ lockResetTimer' = lockResetTimer
       /\ hkLockState' = hkLockState

\* C36, as stated: a lock command that reaches its transport call has
\* cancelled the pending auto-reset timer by then, and when the call fails the
\* command returns false and restores no timer; a command rejected because
\* the device is offline or has no address leaves the pending timer as it was.
C36_FailedLockKeepsTimerCancelled ==
  [][ /\ FailedLockKeepsTimerCancelled
      /\ CommandRejected =>
           /\ timers' = timers
           /\ lockResetTimer' = lockResetTimer ]_vars

\* C36, amended: the same, where the rejected commands are those that return
\* at the offline check or at the device check of hubLockCommand. The lock
\* command of a G3 reader that passes both and then finds no location id in
\* lockG3Reader fails for its address with the timer already cancelled.
C36_RejectedAtChecksKeepsTimer ==
  [][ /\ FailedLockKeepsTimerCancelled
      /\ CommandRejectedAtChecks =>
           /\ timers' = timers
           /\ lockResetTimer' = lockResetTimer
      /\ (last'.op = "hubLockCommand" /\ last'.ret = "false"
            /\ ~CommandRejectedAtChecks) =>
           /\ timers' = {}
           /\ lockResetTimer' = Null ]_vars

\* A command was rejected while the device was offline and the timer of an
\* earlier unlock is still pending.
C36_Witness ==
  /\ last.op = "hubLockCommand"
  /\ last.err = "Offline"
  /\ ~last.cleared
  /\ lockResetTimer # Null
  /\ \E tm \in timers : lockResetTimer = Timeout(tm.id)

\* ------------------------------------------------------------ cleanup: specification

\* cleanup(): the stored timer is cancelled, then the parent class removes the
\* instance's event listeners.
Cleanup ==
  LET cleared == ClearLockResetTimer(TimerState)
  IN /\ listening
     /\ listening' = FALSE
     /\ timers' = cleared.timers
     /\ lockResetTimer' = cleared.handle
     /\ last' = Report("cleanup", "none", "none", "none", NoPub, cleared)
     /\ UNCHANGED << intercom, probe, sensors, doorbell, methods, uda, deviceClass,
                     configuredLockDelay, lockDelayInterval, isOnline, hkLockState,
                     g3ReaderLockStateOverride, inflight >>

\* The device as in Spec until cleanup() runs; from then on no event and no
\* command reaches the instance, while the timeouts that are pending still
\* fire and the transport calls that are awaited still answer.
CleanupNext ==
  \/ listening /\ Next
  \/ Cleanup
  \/ ~listening /\ FireTimer
  \/ ~listening /\ AnswerCall

CleanupSpec == Init /\ [][CleanupNext]_vars

\* ------------------------------------------------------------ C37

\* C37: once cleanup() has run no auto-reset timer is pending for the
\* instance, none is scheduled afterwards and no relock call is issued
\* afterwards, also when a reset attempt was awaiting the answer of its relock
\* call at the time of the cleanup.
C37_NothingAfterCleanup ==
  /\ [](~listening => (timers = {} /\ lockResetTimer = Null))
  /\ [][ ~listening => \A c \in BagToSet(inflight') : inflight' # Issue(c) ]_vars

\* ------------------------------------------------------------ C38

\* The extension has a boolean-valued entry in its target config.
HasBooleanEntry(extension) ==
  \E i \in 1..Len(extension.target_config) :
    extension.target_config[i].config_value.t = "boolean"

\* The first boolean-valued entry of the extension's target config.
FirstBooleanEntry(extension) ==
  extension.target_config[
    CHOOSE i \in 1..Len(extension.target_config) :
      /\ extension.target_config[i].config_value.t = "boolean"
      /\ \A j \in 1..(i - 1) : extension.target_config[j].config_value.t # "boolean"]

\* C38: an extension that matches a method type and has no boolean-valued
\* entry in its target config yields no definition and does not claim the
\* method type: when the extensions of the type listed before an extension
\* with a boolean-valued entry all have none, that extension yields the
\* definition of the type, with the key and the value of its first
\* boolean-valued entry as configKey and state; a type none of whose
\* extensions has a boolean-valued entry gets no definition.
C38_SkippedWithoutClaimingType ==
  probe.fn = "discoverAccessMethodDefinitions" =>
    /\ \A k \in 1..Len(probe.extensions) :
         LET extension == probe.extensions[k]
             methodType == GetAccessMethodTypeFromExtension(extension)
         IN ( /\ methodType # NoMethod
              /\ HasBooleanEntry(extension)
              /\ \A j \in 1..(k - 1) :
                   GetAccessMethodTypeFromExtension(probe.extensions[j]) = methodType
                     => ~HasBooleanEntry(probe.extensions[j]) )
            => \E d \in 1..Len(probe.out) :
                 /\ probe.out[d].methodType = methodType
                 /\ probe.out[d].configKey = FirstBooleanEntry(extension).config_key
                 /\ probe.out[d].state = FirstBooleanEntry(extension).config_value.v
                 /\ probe.out[d].extensionKey =
                      BuildAccessMethodExtensionKey(extension, methodType)
                 /\ \A other \in 1..Len(probe.out) :
                      probe.out[other].methodType = methodType => other = d
    /\ \A d \in 1..Len(probe.out) :
         \E k \in 1..Len(probe.extensions) :
           /\ GetAccessMethodTypeFromExtension(probe.extensions[k]) = probe.out[d].methodType
           /\ HasBooleanEntry(probe.extensions[k])

\* A PIN extension without a boolean entry was listed before one with a
\* boolean entry and after a hand-wave extension whose first boolean entry
\* follows a number: PIN is defined by the later extension, hand by the first
\* boolean entry.
C38_Witness ==
  /\ probe.fn = "discoverAccessMethodDefinitions"
  /\ Len(probe.extensions) = 3
  /\ GetAccessMethodTypeFromExtension(probe.extensions[1]) = <<"h","a","n","d">>
  /\ Len(probe.extensions[1].target_config) = 3
  /\ GetAccessMethodTypeFromExtension(probe.extensions[2]) = <<"p","i","n">>
  /\ ~HasBooleanEntry(probe.extensions[2])
  /\ GetAccessMethodTypeFromExtension(probe.extensions[3]) = <<"p","i","n">>
  /\ HasBooleanEntry(probe.extensions[3])
  /\ Len(probe.out) = 2
  /\ probe.out[1].configKey = "k5"
  /\ probe.out[2].extensionKey = probe.extensions[3].unique_id

\* ------------------------------------------------------------ access-method switches: setting

\* The model keeps at most MaxUpdatesAwaited updates of a switch awaited.
MaxUpdatesAwaited == 1

\* The switch of a method type is set to value: the onSet handler up to the
\* await of udaApi.updateDevice.
AccessMethodSet(methodType, value) ==
  LET targetState == value
      currentState == AccessMethodOnGet(methods, methodType)
      definition == methods.configs[methodType]
      call == UpdateCall(uda, definition, targetState, currentState)
  IN
  /\ methods.services[methodType] # Undefined
  /\ \/ /\ ~SetSendsUpdate(targetState, currentState)
        /\ methods' = AccessMethodReverted(methods, methodType, currentState)
        /\ last' = Report("accessMethod.onSet", "unchanged", "none", "none", NoPub,
                          TimerState)
        /\ UNCHANGED inflight
     \/ /\ SetSendsUpdate(targetState, currentState)
        /\ UpdateHasNoTarget(methods, uda, methodType)
        /\ methods' = AccessMethodReverted(methods, methodType, currentState)
        /\ last' = Report("accessMethod.onSet", "false", "none", "none", NoPub,
                          TimerState)
        /\ UNCHANGED inflight
     \/ /\ SetSendsUpdate(targetState, currentState)
        /\ ~UpdateHasNoTarget(methods, uda, methodType)
        /\ BagCardinality(inflight) < MaxUpdatesAwaited
        /\ inflight' = Issue(call)
        /\ methods' = [methods EXCEPT !.services[methodType].On = targetState,
                                      !.logged = {}]
        /\ last' = Report("accessMethod.onSet", "pending", "none", call.api, NoPub,
                          TimerState)
  /\ UNCHANGED << intercom, listening, probe, sensors, doorbell, uda, deviceClass,
                  configuredLockDelay, lockDelayInterval, isOnline, hkLockState,
                  g3ReaderLockStateOverride, lockResetTimer, timers >>

\* The onSet handler from its await on: udaApi.updateDevice answers the
\* updated device ("device"), null, or throws.
AccessMethodSetResponse(c, outcome) ==
  /\ c.kind = "accessMethod"
  /\ inflight' = Answer(c)
  /\ \/ /\ outcome = "device"
        /\ uda' = UpdatedDevice(c)
        /\ methods' = AccessMethodUpdated(methods, c)
     \/ /\ outcome = "null"
        /\ uda' = uda
        /\ methods' = AccessMethodReverted(methods, c.methodType, c.currentState)
     \/ /\ outcome = "throw"
        /\ uda' = uda
        /\ methods' = [methods EXCEPT !.logged = {}]
  /\ last' = Report("accessMethod.onSet.resumed",
                    CASE outcome = "device" -> "true"
                      [] outcome = "null" -> "false"
                      [] outcome = "throw" -> "rejected",
                    "none", "none", NoPub, TimerState)
  /\ UNCHANGED << intercom, listening, probe, sensors, doorbell, deviceClass,
                  configuredLockDelay, lockDelayInterval, isOnline, hkLockState,
                  g3ReaderLockStateOverride, lockResetTimer, timers >>

\* The snapshots of this specification carry at most one extension, a PIN or
\* a face extension.
SetExtensionLists ==
  { extensions \in MethodExtensionLists :
      /\ Len(extensions) <= 1
      /\ \A i \in 1..Len(extensions) :
           GetAccessMethodTypeFromExtension(extensions[i]) # NoMethod }

AccessMethodSetInit ==
  /\ \E extensions \in SetExtensionLists :
       uda = [Device(TYPE_UAH, {"is_hub"}, NULL, NULL, <<>>)
                EXCEPT !.extensions = extensions]
  /\ configuredLockDelay = Undefined
  /\ Constructed(NoSensorHints)

\* The switches are set while device updates arrive, also between the
\* request of an update and its answer.
AccessMethodSetNext ==
  \/ \E extensions \in SetExtensionLists : ExtensionsUpdateEvent(extensions)
  \/ \E methodType \in AccessMethodTypes, value \in BOOLEAN :
       AccessMethodSet(methodType, value)
  \/ \E c \in Awaited, outcome \in {"device", "null", "throw"} :
       AccessMethodSetResponse(c, outcome)

AccessMethodSetSpec == AccessMethodSetInit /\ [][AccessMethodSetNext]_vars

\* ------------------------------------------------------------ C39

\* The step leaves the tracked states, the stored definitions and the
\* snapshot as they were.
SwitchBookkeepingUnchanged ==
  /\ methods'.states = methods.states
  /\ methods'.configs = methods.configs
  /\ uda' = uda

\* C39: a switch set to the value of its tracked state sends no update; a
\* switch set while its method type has no stored definition sends none and
\* changes nothing; the handler changes neither the tracked states nor the
\* stored definitions nor the snapshot before its update is answered, nor
\* when the update fails; when the update succeeds the snapshot is the
\* returned record and the tracked state and the state of the stored
\* definition of the method type are the requested value.
C39_SetAppliesOnSuccessOnly ==
  [][ /\ \A methodType \in AccessMethodTypes, value \in BOOLEAN :
           AccessMethodSet(methodType, value) =>
             /\ SwitchBookkeepingUnchanged
             /\ methods.states[methodType] = Bool(value) => inflight' = inflight
             /\ methods.configs[methodType] = Undefined => inflight' = inflight
      /\ (last'.op = "accessMethod.onSet.resumed" /\ last'.ret # "true") =>
           SwitchBookkeepingUnchanged
      /\ (last'.op = "accessMethod.onSet.resumed" /\ last'.ret = "true") =>
           \E c \in Awaited :
             /\ inflight' = Answer(c)
             /\ uda' = UpdatedDevice(c)
             /\ methods'.states[c.methodType] = Bool(c.targetState)
             /\ methods'.configs[c.methodType] # Undefined
             /\ methods'.configs[c.methodType].state = c.targetState ]_vars

\* The PIN switch, discovered on, was set to off and the update was accepted:
\* the snapshot carries the new value, the tracked state and the stored
\* definition are off.
C39_Witness ==
  /\ last.op = "accessMethod.onSet.resumed"
  /\ last.ret = "true"
  /\ Len(uda.extensions) = 1
  /\ uda.extensions[1].target_config[1] = [config_key |-> "k1", config_value |-> Bool(FALSE)]
  /\ methods.states[<<"p","i","n">>] = Bool(FALSE)
  /\ methods.configs[<<"p","i","n">>].state = FALSE
  /\ methods.configs[<<"p","i","n">>].configKey = "k1"

\* ------------------------------------------------------------ intercom: specification

\* Device type strings of intercoms: one whose class normalises to
\* UAG3INTERCOM and one whose class does not.
TYPE_G3_INTERCOM == Str(<<"U","A","-","G","3","-","I","n","t","e","r","c","o","m">>)
TYPE_INTERCOM == Str(<<"U","A","-","I","n","t","e","r","c","o","m">>)

\* A ring event as both instances receive it: each has its listener on the
\* event's name, and each handler runs on the same packet.
RingEventAtBoth(event, connected_uah_id, device_id, event_object_id, request_id) ==
  /\ DoorbellRingEvent(event, connected_uah_id, device_id, event_object_id, request_id)
  /\ intercom' = IntercomRing(intercom, uda, connected_uah_id, device_id,
                              event_object_id, request_id)

\* A change event as both instances receive it.
ChangeEventAtBoth(event, remote_call_request_id) ==
  /\ DoorbellChangeEvent(event, remote_call_request_id)
  /\ intercom' = IntercomChange(intercom, remote_call_request_id)

\* A hub and an intercom built for the same device, with and without the
\* doorbell capability.
IntercomInit ==
  /\ \E device_type \in {TYPE_UAH, TYPE_G3_READER, TYPE_G3_INTERCOM, TYPE_INTERCOM},
        capabilities \in {{"is_hub", "door_bell"}, {"is_hub"}, {"door_bell"}, {}} :
       uda = Device(device_type, capabilities, NULL, NULL, <<>>)
  /\ configuredLockDelay = Undefined
  /\ Constructed(NoSensorHints)

IntercomNext ==
  \/ \E event \in RingEvents, connected_uah_id \in RingTargetIds,
        device_id \in RingTargetIds, event_object_id \in RingTargetIds,
        request_id \in RequestIds :
       RingEventAtBoth(event, connected_uah_id, device_id, event_object_id, request_id)
  \/ \E event \in ChangeEvents, remote_call_request_id \in RequestIds :
       ChangeEventAtBoth(event, remote_call_request_id)

IntercomSpec == IntercomInit /\ [][IntercomNext]_vars

\* ------------------------------------------------------------ C40

\* The hub and the intercom hold the same pending request id and notified
\* the same at their latest step.
SameRing(d, i) ==
  /\ i.requestId = d.requestId
  /\ i.press = d.press
  /\ i.pub = d.pub

\* The intercom accepts rings on its class alone: no door_bell capability,
\* class UAG3INTERCOM.
RingsOnClassAlone(u, i) ==
  /\ ~HasCapability(u, "door_bell")
  /\ i.deviceClass = UAG3INTERCOM

\* C40: a hub and an intercom given the same events for the same device hold
\* the same pending request id and emit the same ring / cleared notifications
\* at every step when the device has the door_bell capability; they differ
\* only when the device lacks the capability and the intercom's normalised
\* class is UAG3INTERCOM, and there a ring event addressed to the device is
\* accepted by the intercom (request id stored, ring notified) and ignored by
\* the hub.
C40_SameRingMachine ==
  /\ [](HasCapability(uda, "door_bell") => SameRing(doorbell, intercom))
  /\ [](~SameRing(doorbell, intercom) => RingsOnClassAlone(uda, intercom))
  /\ [][ ( /\ last'.op \in RingEvents
           /\ RingsOnClassAlone(uda, intercom)
           /\ \/ doorbell'.packet.connected_uah_id = uda.unique_id
              \/ doorbell'.packet.device_id = uda.unique_id
              \/ doorbell'.packet.event_object_id = uda.unique_id )
         => /\ intercom'.requestId = doorbell'.packet.request_id
            /\ intercom'.press
            /\ intercom'.pub = <<"true">>
            /\ doorbell'.requestId = doorbell.requestId
            /\ ~doorbell'.press
            /\ doorbell'.pub = <<>> ]_vars

\* A device with the capability: a ring is pending in both under the same
\* request id and the ring was
\* notified by both.
C40_Witness ==
  /\ HasCapability(uda, "door_bell")
  /\ last.op \in RingEvents
  /\ doorbell.requestId = "req-2"
  /\ intercom.requestId = "req-2"
  /\ doorbell.press
  /\ intercom.press
  /\ intercom.deviceClass # UAG3INTERCOM

====
